---- MODULE Spec2Model ----
(***************************************************************************)
(* Retrieval-aware streaming response pipeline of studybuddy-backend:      *)
(*   - AgnoVercelAdapter (app/adapters/vercel_stream.py): the protocol     *)
(*     adapter that turns the upstream Agno event stream into Vercel AI    *)
(*     SDK v5 frames, under blocking (transform_stream_sync) and           *)
(*     suspend/resume (transform_stream) iteration;                        *)
(*   - message_sources_service (app/services/message_sources_service.py):  *)
(*     persistence of the sources of a message.                            *)
(*                                                                         *)
(* Conventions.  Python None and the empty string are both written "" for  *)
(* text fields (the code only tests their truthiness); an absent number is *)
(* NoneInt.  uuid4() is a counter kept with the adapter: every call yields *)
(* an id that was never produced before.  start_seconds is kept in tenths  *)
(* of a second so that int() has something to truncate.                    *)
(***************************************************************************)
EXTENDS Integers, Sequences, FiniteSets, TLC

VARIABLES
    agno_stream,            \* events the upstream has delivered so far
    stream_end,             \* "open" | "exhausted" | "raised"
    pre_retrieved_sources,  \* argument of transform_stream[_sync]
    sync,                   \* adapter + frames of the transform_stream_sync run
    async,                  \* adapter + frames of the transform_stream run
    store,                  \* rows of ai.message_sources (committed)
    db,                     \* rows inserted by the open transaction of the session
    call,                   \* the save_message_sources call in progress / last made
    saved,                  \* arguments of the calls that have committed
    db2,                    \* as db, of a second database session
    call2,                  \* as call, of the second database session
    sessions,               \* conversation records of the conversation store
    del,                    \* the delete_session request in progress / last made
    chat,                   \* the generate_stream generator of a chat response
    fmt,                    \* a format_retrieval_context call and what follows it
    ext,                    \* extract_sources_from_references calls on one adapter
    adapters,               \* the AgnoVercelAdapter instances constructed so far
    responses,              \* the chat responses being streamed side by side
    loaded,                 \* the load_sources_for_messages call last made
    history                 \* runs of a conversation and the history request last made

adapterVars == <<agno_stream, stream_end, pre_retrieved_sources, sync, async>>
storeVars == <<store, db, call, saved>>
peerVars == <<db2, call2>>
sessionVars == <<sessions, del>>
chatVars == <<chat>>
formatVars == <<fmt>>
extractVars == <<ext>>
responseVars == <<adapters, responses>>
loadVars == <<loaded, history>>
moreVars == <<extractVars, responseVars, loadVars>>
laterVars == <<chatVars, formatVars, moreVars>>
restVars == <<peerVars, sessionVars, laterVars>>
vars == <<adapterVars, storeVars, restVars>>

-----------------------------------------------------------------------------
(* Bounds *)

MaxEvents == 3      \* upstream events per run (blocking run alone)
MaxEqEvents == 2    \* upstream events per run when both operations are run
MaxCalls == 3       \* save_message_sources calls per behaviour
MaxPeerCalls == 1   \* calls of each database session when two sessions run
MaxDeletes == 2     \* delete_session requests per behaviour
MaxSessionCalls == 2 \* save_message_sources calls beside delete_session requests
MaxChatEvents == 2  \* upstream events of a chat response
MaxRefs == 3        \* references given to format_retrieval_context

\* Python None in a numeric field.
NoneInt == -1

\* In a reference, NoneInt is a numeric key that is absent (.get returns its
\* default) and NullInt one that is present with the value None.
NullInt == -2

\* The content of a reference whose "content" key holds None.
NullText == "<None>"

-----------------------------------------------------------------------------
(* RAGSource and references *)

\* RAGSource(source_id, source_type, content_preview, chunk_number, ...)
RAGSource(source_id, source_type, content_preview, chunk_number, document_id, slide_number, lecture_id, start_seconds, title) ==
    [source_id |-> source_id, source_type |-> source_type,
     content_preview |-> content_preview, chunk_number |-> chunk_number,
     document_id |-> document_id, slide_number |-> slide_number,
     lecture_id |-> lecture_id, start_seconds |-> start_seconds,
     title |-> title]

NoSource == RAGSource("", "", "", NoneInt, "", NoneInt, "", NoneInt, "")

\* A reference dict of the retriever.  metadata is "absent" (no key: .get
\* returns the {} default), "null" (key present, value None) or "map".
Reference(metadata, content, chunk_number, document_id, slide_number, lecture_id, start_seconds, name) ==
    [is_str |-> FALSE, metadata |-> metadata, content |-> content,
     chunk_number |-> chunk_number, document_id |-> document_id,
     slide_number |-> slide_number, lecture_id |-> lecture_id,
     start_seconds |-> start_seconds, name |-> name]

\* A bare string reference.
StrReference(s) ==
    [is_str |-> TRUE, metadata |-> "absent", content |-> s,
     chunk_number |-> NoneInt, document_id |-> "", slide_number |-> NoneInt,
     lecture_id |-> "", start_seconds |-> NoneInt, name |-> ""]

PreviewLen == 200

\* content[:200] if content else ""
Preview(content) ==
    IF content = NullText THEN ""
    ELSE IF Len(content) > PreviewLen THEN "<first 200 characters>" ELSE content

Uuid(n) == "uuid-" \o ToString(n)

\* The result of a step that may raise: the value, the uuids used, and the
\* text of the exception ("" when none was raised).
Result(value, uuids, exc) == [value |-> value, uuids |-> uuids, exc |-> exc]

AttributeErrorGet == "'NoneType' object has no attribute 'get'"
AttributeErrorTitle == "'NoneType' object has no attribute 'title'"
TypeErrorInt == "int() argument must be a string, a bytes-like object or a real number, not 'NoneType'"

\* Variant: the lecture source_id built from start_seconds without int().
ExtractOneUntruncated(ref, idx, uuids) ==
    IF ref.is_str
    THEN Result(RAGSource(Uuid(uuids + 1), "unknown", Preview(ref.content), idx,
                          "", NoneInt, "", NoneInt, ""),
                uuids + 1, "")
    ELSE IF ref.metadata = "null"
    THEN Result(NoSource, uuids, AttributeErrorGet)
    ELSE
      LET has_md == ref.metadata = "map"
          document_id == IF has_md THEN ref.document_id ELSE ""
          lecture_id == IF has_md THEN ref.lecture_id ELSE ""
          slide_number == IF has_md THEN ref.slide_number ELSE NoneInt
          start_seconds == IF has_md THEN ref.start_seconds ELSE NoneInt
          chunk_number == IF ref.chunk_number = NoneInt THEN idx ELSE ref.chunk_number
          slide_num == IF slide_number = NoneInt THEN "0"
                       ELSE IF slide_number = NullInt THEN "None"
                       ELSE ToString(slide_number)
          start_sec == IF start_seconds = NoneInt THEN 0 ELSE start_seconds
          slide_field == IF slide_number = NullInt THEN NoneInt ELSE slide_number
          start_field == IF start_seconds = NullInt THEN NoneInt ELSE start_seconds
      IN  IF document_id # ""
          THEN Result(RAGSource("slide-" \o document_id \o "-" \o slide_num,
                                "slide", Preview(ref.content), chunk_number,
                                document_id, slide_field, lecture_id,
                                start_field, ref.name),
                      uuids, "")
          ELSE IF lecture_id # "" /\ start_seconds = NullInt
          THEN Result(NoSource, uuids, TypeErrorInt)
          ELSE IF lecture_id # ""
          THEN Result(RAGSource("lecture-" \o lecture_id \o "-" \o ToString(start_sec),
                                "lecture", Preview(ref.content), chunk_number,
                                document_id, slide_field, lecture_id,
                                start_field, ref.name),
                      uuids, "")
          ELSE Result(RAGSource(Uuid(uuids + 1), "unknown", Preview(ref.content),
                                chunk_number, document_id, slide_field,
                                lecture_id, start_field, ref.name),
                      uuids + 1, "")

\* Body of the loop of extract_sources_from_references for one reference at
\* 1-based position idx; uuids is the number of uuids generated before.
ExtractOne(ref, idx, uuids) ==
    IF ref.is_str
    THEN Result(RAGSource(Uuid(uuids + 1), "unknown", Preview(ref.content), idx,
                          "", NoneInt, "", NoneInt, ""),
                uuids + 1, "")
    ELSE IF ref.metadata = "null"
    THEN Result(NoSource, uuids, AttributeErrorGet)
    ELSE
      LET has_md == ref.metadata = "map"
          document_id == IF has_md THEN ref.document_id ELSE ""
          lecture_id == IF has_md THEN ref.lecture_id ELSE ""
          slide_number == IF has_md THEN ref.slide_number ELSE NoneInt
          start_seconds == IF has_md THEN ref.start_seconds ELSE NoneInt
          chunk_number == IF ref.chunk_number = NoneInt THEN idx ELSE ref.chunk_number
          slide_num == IF slide_number = NoneInt THEN "0"
                       ELSE IF slide_number = NullInt THEN "None"
                       ELSE ToString(slide_number)
          start_sec == IF start_seconds = NoneInt THEN 0 ELSE start_seconds \div 10
          slide_field == IF slide_number = NullInt THEN NoneInt ELSE slide_number
          start_field == IF start_seconds = NullInt THEN NoneInt ELSE start_seconds
      IN  IF document_id # ""
          THEN Result(RAGSource("slide-" \o document_id \o "-" \o slide_num,
                                "slide", Preview(ref.content), chunk_number,
                                document_id, slide_field, lecture_id,
                                start_field, ref.name),
                      uuids, "")
          ELSE IF lecture_id # "" /\ start_seconds = NullInt
          THEN Result(NoSource, uuids, TypeErrorInt)
          ELSE IF lecture_id # ""
          THEN Result(RAGSource("lecture-" \o lecture_id \o "-" \o ToString(start_sec),
                                "lecture", Preview(ref.content), chunk_number,
                                document_id, slide_field, lecture_id,
                                start_field, ref.name),
                      uuids, "")
          ELSE Result(RAGSource(Uuid(uuids + 1), "unknown", Preview(ref.content),
                                chunk_number, document_id, slide_field,
                                lecture_id, start_field, ref.name),
                      uuids + 1, "")

\* Body applied to value: `value` is computed once and named in Body.
With(value, Body(_)) == Body(value)

RECURSIVE ExtractFrom(_, _, _, _)
\* The loop of extract_sources_from_references from position idx on, with
\* the sources extracted so far in acc.
ExtractFrom(references, idx, acc, uuids) ==
    IF idx > Len(references)
    THEN Result(acc, uuids, "")
    ELSE With(ExtractOne(references[idx], idx, uuids),
              LAMBDA r :
                  IF r.exc # ""
                  THEN Result(acc, r.uuids, r.exc)
                  ELSE ExtractFrom(references, idx + 1, Append(acc, r.value), r.uuids))

extract_sources_from_references(references, uuids) ==
    IF references = <<>>
    THEN Result(<<>>, uuids, "")
    ELSE ExtractFrom(references, 1, <<>>, uuids)

\* An Agno MessageReferences object: shape "attr" exposes .references,
\* shape "dump" exposes them only through model_dump(), "neither" has none.
MessageReferences(shape, references) == [shape |-> shape, references |-> references]

RECURSIVE ExtractMessageRefsFrom(_, _, _, _)
ExtractMessageRefsFrom(msg_refs, i, acc, uuids) ==
    IF i > Len(msg_refs)
    THEN Result(acc, uuids, "")
    ELSE LET m == msg_refs[i]
         IN  IF m.shape \in {"attr", "dump"} /\ m.references # <<>>
             THEN With(extract_sources_from_references(m.references, uuids),
                       LAMBDA r :
                           IF r.exc # ""
                           THEN Result(acc, r.uuids, r.exc)
                           ELSE ExtractMessageRefsFrom(msg_refs, i + 1,
                                                       acc \o r.value, r.uuids))
             ELSE ExtractMessageRefsFrom(msg_refs, i + 1, acc, uuids)

extract_sources_from_message_references(references, uuids) ==
    IF references = <<>>
    THEN Result(<<>>, uuids, "")
    ELSE ExtractMessageRefsFrom(references, 1, <<>>, uuids)

-----------------------------------------------------------------------------
(* Frames and the adapter *)

NoData == [keys |-> {}, source |-> NoSource]

Frame(type, id, text, arg, data) ==
    [type |-> type, id |-> id, text |-> text, arg |-> arg, data |-> data]

\* RAGSource.to_dict: the fields whose value is not None.
to_dict(source) ==
    [keys |-> {"source_id", "source_type", "content_preview"}
              \cup (IF source.chunk_number # NoneInt THEN {"chunk_number"} ELSE {})
              \cup (IF source.document_id # "" THEN {"document_id"} ELSE {})
              \cup (IF source.slide_number # NoneInt THEN {"slide_number"} ELSE {})
              \cup (IF source.lecture_id # "" THEN {"lecture_id"} ELSE {})
              \cup (IF source.start_seconds # NoneInt THEN {"start_seconds"} ELSE {})
              \cup (IF source.title # "" THEN {"title"} ELSE {}),
     source |-> source]

\* AgnoVercelAdapter.__init__ followed by nothing else: a fresh adapter.  The
\* fields below the blank line are the run's bookkeeping: the frames yielded
\* so far, the position of the generator, the events consumed, the uuids
\* generated, and the exception in flight.
AgnoVercelAdapter(emit_sources_before_text) ==
    [message_id |-> Uuid(1),
     emit_sources_before_text |-> emit_sources_before_text,
     text_block_id |-> "",
     reasoning_block_id |-> "",
     text_started |-> FALSE,
     reasoning_started |-> FALSE,
     sources_emitted |-> FALSE,
     collected_sources |-> <<>>,
     agno_run_id |-> "",

     frames |-> <<>>,
     pc |-> "fresh",
     pos |-> 0,
     uuids |-> 1,
     exc |-> ""]

Yield(a, frame) == [a EXCEPT !.frames = Append(@, frame)]

Raise(a, text) == [a EXCEPT !.exc = text]

emit_start(a) == Yield(a, Frame("start", a.message_id, "", "", NoData))

emit_finish(a) == Yield(a, Frame("finish", "", "", "", NoData))

emit_done(a) == Yield(a, Frame("done", "", "", "", NoData))

emit_error(a, error_text) == Yield(a, Frame("error", "", error_text, "", NoData))

emit_text_start(a) ==
    LET b == [a EXCEPT !.uuids = @ + 1, !.text_block_id = Uuid(a.uuids + 1)]
    IN  Yield(b, Frame("text-start", b.text_block_id, "", "", NoData))

emit_text_delta(a, delta) ==
    Yield(a, Frame("text-delta", a.text_block_id, delta, "", NoData))

emit_text_end(a) == Yield(a, Frame("text-end", a.text_block_id, "", "", NoData))

emit_reasoning_start(a) ==
    LET b == [a EXCEPT !.uuids = @ + 1, !.reasoning_block_id = Uuid(a.uuids + 1)]
    IN  Yield(b, Frame("reasoning-start", b.reasoning_block_id, "", "", NoData))

emit_reasoning_delta(a, delta) ==
    Yield(a, Frame("reasoning-delta", a.reasoning_block_id, delta, "", NoData))

emit_reasoning_end(a) ==
    Yield(a, Frame("reasoning-end", a.reasoning_block_id, "", "", NoData))

emit_tool_input_start(a, tool_call_id, tool_name) ==
    Yield(a, Frame("tool-input-start", tool_call_id, tool_name, "", NoData))

emit_tool_input_available(a, tool_call_id, tool_name, input_data) ==
    Yield(a, Frame("tool-input-available", tool_call_id, tool_name, input_data, NoData))

emit_tool_output_available(a, tool_call_id, output) ==
    Yield(a, Frame("tool-output-available", tool_call_id, "", output, NoData))

\* str.title() on the source types in use.
StrTitle(s) ==
    CASE s = "slide" -> "Slide"
      [] s = "lecture" -> "Lecture"
      [] s = "unknown" -> "Unknown"
      [] OTHER -> s

\* source.title or f"{source.source_type.title()} Source" raises when both
\* the title and the source_type are None.
SourceDocumentRaises(source) == source.title = "" /\ source.source_type = ""

emit_source_document(a, source) ==
    Yield(a, Frame("source-document", source.source_id,
                   IF source.title # "" THEN source.title
                   ELSE StrTitle(source.source_type) \o " Source",
                   source.source_type, NoData))

emit_rag_source(a, source) ==
    Yield(a, Frame("data-rag-source", "", "", "", to_dict(source)))

RECURSIVE EmitSourcesFrom(_, _, _)
EmitSourcesFrom(a, sources, i) ==
    IF i > Len(sources)
    THEN a
    ELSE EmitSourcesFrom(emit_rag_source(emit_source_document(a, sources[i]), sources[i]),
                         sources, i + 1)

\* Variant: _emit_all_sources without the extend of _collected_sources.
emit_all_sources_uncollected(a, sources) ==
    IF \E i \in 1..Len(sources) : SourceDocumentRaises(sources[i])
    THEN Raise(a, AttributeErrorTitle)
    ELSE EmitSourcesFrom(a, sources, 1)

\* _emit_all_sources and the yield of its result: the sources are collected
\* first; the frames are built into one string, so a source that makes the
\* building raise leaves the sources collected and no frame yielded.
emit_all_sources(a, sources) ==
    LET b == [a EXCEPT !.collected_sources = @ \o sources]
    IN  IF \E i \in 1..Len(sources) : SourceDocumentRaises(sources[i])
        THEN Raise(b, AttributeErrorTitle)
        ELSE EmitSourcesFrom(b, sources, 1)

\* yield self._emit_all_sources(sources); self._sources_emitted = True
EmitSourcesAndMark(a, sources) ==
    With(emit_all_sources(a, sources),
         LAMBDA b : IF b.exc # "" THEN b ELSE [b EXCEPT !.sources_emitted = TRUE])

-----------------------------------------------------------------------------
(* Upstream events *)

NoTool == [present |-> FALSE, tool_call_id |-> "", tool_name |-> "",
           tool_args |-> "", result |-> ""]

Tool(tool_call_id, tool_name, tool_args, result) ==
    [present |-> TRUE, tool_call_id |-> tool_call_id, tool_name |-> tool_name,
     tool_args |-> tool_args, result |-> result]

Event(kind, references, reasoning_content, content, run_id, tool, sources) ==
    [kind |-> kind, references |-> references,
     reasoning_content |-> reasoning_content, content |-> content,
     run_id |-> run_id, tool |-> tool, sources |-> sources]

RunStartedEvent == Event("RunStarted", <<>>, "", "", "", NoTool, <<>>)
RunContentEvent(references, reasoning_content, content) ==
    Event("RunContent", references, reasoning_content, content, "", NoTool, <<>>)
RunContentCompletedEvent == Event("RunContentCompleted", <<>>, "", "", "", NoTool, <<>>)
RunCompletedEvent(run_id, references, content) ==
    Event("RunCompleted", references, "", content, run_id, NoTool, <<>>)
RunErrorEvent(content) == Event("RunError", <<>>, "", content, "", NoTool, <<>>)
ReasoningStartedEvent == Event("ReasoningStarted", <<>>, "", "", "", NoTool, <<>>)
ReasoningStepEvent(reasoning_content) ==
    Event("ReasoningStep", <<>>, reasoning_content, "", "", NoTool, <<>>)
ReasoningCompletedEvent == Event("ReasoningCompleted", <<>>, "", "", "", NoTool, <<>>)
ToolCallStartedEvent(tool) == Event("ToolCallStarted", <<>>, "", "", "", tool, <<>>)
ToolCallCompletedEvent(tool) == Event("ToolCallCompleted", <<>>, "", "", "", tool, <<>>)
CustomEvent(sources) == Event("Custom", <<>>, "", "", "", NoTool, sources)

-----------------------------------------------------------------------------
(* _handle_event.  Each step is skipped once an exception is in flight. *)

\* RunContentEvent, lines 333-342: references, if sources not yet emitted.
ContentReferences(a, event) ==
    IF ~a.sources_emitted /\ a.emit_sources_before_text /\ event.references # <<>>
    THEN With(extract_sources_from_message_references(event.references, a.uuids),
              LAMBDA r :
                  LET b == [a EXCEPT !.uuids = r.uuids]
                  IN  IF r.exc # "" THEN Raise(b, r.exc)
                      ELSE IF r.value # <<>> THEN EmitSourcesAndMark(b, r.value)
                      ELSE b)
    ELSE a

\* RunContentEvent, lines 344-349: reasoning content.
ContentReasoning(a, event) ==
    IF a.exc # "" \/ event.reasoning_content = "" THEN a
    ELSE LET b == IF ~a.reasoning_started
                  THEN [emit_reasoning_start(a) EXCEPT !.reasoning_started = TRUE]
                  ELSE a
         IN  emit_reasoning_delta(b, event.reasoning_content)

\* Variant: text content without the `if not self._text_started`.
ContentTextUnguarded(a, event) ==
    IF a.exc # "" \/ event.content = "" THEN a
    ELSE emit_text_delta([emit_text_start(a) EXCEPT !.text_started = TRUE],
                         event.content)

\* RunContentEvent, lines 351-356: text content.
ContentText(a, event) ==
    IF a.exc # "" \/ event.content = "" THEN a
    ELSE LET b == IF ~a.text_started
                  THEN [emit_text_start(a) EXCEPT !.text_started = TRUE]
                  ELSE a
         IN  emit_text_delta(b, event.content)

\* Variant: the text branch of the RunContentEvent handler comes first.
HandleRunContentTextFirst(a, event) ==
    ContentReasoning(ContentReferences(ContentText(a, event), event), event)

HandleRunContent(a, event) ==
    ContentText(ContentReasoning(ContentReferences(a, event), event), event)

\* RunCompletedEvent, lines 363-365: capture the run id.
CompletedRunId(a, event) ==
    IF event.run_id # "" THEN [a EXCEPT !.agno_run_id = event.run_id] ELSE a

\* RunCompletedEvent, lines 367-372: references, if sources not yet emitted.
CompletedReferences(a, event) ==
    IF event.references # <<>> /\ ~a.sources_emitted
    THEN With(extract_sources_from_message_references(event.references, a.uuids),
              LAMBDA r :
                  LET b == [a EXCEPT !.uuids = r.uuids]
                  IN  IF r.exc # "" THEN Raise(b, r.exc)
                      ELSE IF r.value # <<>> THEN EmitSourcesAndMark(b, r.value)
                      ELSE b)
    ELSE a

\* Variant: the final content without the `not self._text_started` test.
CompletedContentUnguarded(a, event) ==
    IF a.exc = "" /\ event.content # ""
    THEN emit_text_delta([emit_text_start(a) EXCEPT !.text_started = TRUE],
                         event.content)
    ELSE a

\* RunCompletedEvent, lines 374-378: final content, if no text block yet.
CompletedContent(a, event) ==
    IF a.exc = "" /\ event.content # "" /\ ~a.text_started
    THEN emit_text_delta([emit_text_start(a) EXCEPT !.text_started = TRUE],
                         event.content)
    ELSE a

HandleRunCompleted(a, event) ==
    CompletedContent(CompletedReferences(CompletedRunId(a, event), event), event)

GenericError == "An error occurred"

\* RunErrorEvent, lines 380-382.
HandleRunError(a, event) ==
    emit_error(a, IF event.content # "" THEN event.content ELSE GenericError)

\* Variant: reasoning-started without the `if not self._reasoning_started`.
HandleReasoningStartedUnguarded(a, event) ==
    [emit_reasoning_start(a) EXCEPT !.reasoning_started = TRUE]

\* ReasoningStartedEvent, lines 384-387.
HandleReasoningStarted(a, event) ==
    IF ~a.reasoning_started
    THEN [emit_reasoning_start(a) EXCEPT !.reasoning_started = TRUE]
    ELSE a

\* ReasoningStepEvent, lines 389-394.
HandleReasoningStep(a, event) ==
    LET b == IF ~a.reasoning_started
             THEN [emit_reasoning_start(a) EXCEPT !.reasoning_started = TRUE]
             ELSE a
    IN  IF event.reasoning_content # ""
        THEN emit_reasoning_delta(b, event.reasoning_content)
        ELSE b

\* Variant: reasoning-completed without line 399, the reset of the flag.
HandleReasoningCompletedNoReset(a, event) ==
    IF a.reasoning_started
    THEN emit_reasoning_end(a)
    ELSE a

\* ReasoningCompletedEvent, lines 396-399.
HandleReasoningCompleted(a, event) ==
    IF a.reasoning_started
    THEN [emit_reasoning_end(a) EXCEPT !.reasoning_started = FALSE]
    ELSE a

\* ToolCallStartedEvent, lines 401-406.
HandleToolCallStarted(a, event) ==
    IF event.tool.present
    THEN LET fresh == event.tool.tool_call_id = ""
             b == IF fresh THEN [a EXCEPT !.uuids = @ + 1] ELSE a
         IN  emit_tool_input_start(
                 b,
                 IF fresh THEN Uuid(b.uuids) ELSE event.tool.tool_call_id,
                 IF event.tool.tool_name # "" THEN event.tool.tool_name
                 ELSE "unknown_tool")
    ELSE a

\* ToolCallCompletedEvent, lines 408-424.
HandleToolCallCompleted(a, event) ==
    IF event.tool.present
    THEN LET fresh == event.tool.tool_call_id = ""
             b == IF fresh THEN [a EXCEPT !.uuids = @ + 1] ELSE a
             tool_call_id == IF fresh THEN Uuid(b.uuids) ELSE event.tool.tool_call_id
             tool_name == IF event.tool.tool_name # "" THEN event.tool.tool_name
                          ELSE "unknown_tool"
         IN  emit_tool_output_available(
                 emit_tool_input_available(b, tool_call_id, tool_name,
                     IF event.tool.tool_args # "" THEN event.tool.tool_args ELSE "{}"),
                 tool_call_id, event.tool.result)
    ELSE a

\* CustomEvent, lines 426-432.
HandleCustom(a, event) ==
    IF event.sources # <<>>
    THEN With(extract_sources_from_references(event.sources, a.uuids),
              LAMBDA r :
                  LET b == [a EXCEPT !.uuids = r.uuids]
                  IN  IF r.exc # "" THEN Raise(b, r.exc)
                      ELSE IF r.value # <<>> THEN EmitSourcesAndMark(b, r.value)
                      ELSE b)
    ELSE a

handle_event(a, event) ==
    CASE event.kind = "RunStarted" -> a
      [] event.kind = "RunContent" -> HandleRunContent(a, event)
      [] event.kind = "RunContentCompleted" -> a
      [] event.kind = "RunCompleted" -> HandleRunCompleted(a, event)
      [] event.kind = "RunError" -> HandleRunError(a, event)
      [] event.kind = "ReasoningStarted" -> HandleReasoningStarted(a, event)
      [] event.kind = "ReasoningStep" -> HandleReasoningStep(a, event)
      [] event.kind = "ReasoningCompleted" -> HandleReasoningCompleted(a, event)
      [] event.kind = "ToolCallStarted" -> HandleToolCallStarted(a, event)
      [] event.kind = "ToolCallCompleted" -> HandleToolCallCompleted(a, event)
      [] event.kind = "Custom" -> HandleCustom(a, event)
      [] OTHER -> a

-----------------------------------------------------------------------------
(* transform_stream_sync and transform_stream, as steps of the generator *)

\* Variant: the except clause without its `yield self._emit_done()`.
ExceptClauseNoDone(a) ==
    [emit_error(a, a.exc) EXCEPT !.pc = "done", !.exc = ""]

\* except Exception as e: yield error(str(e)); yield done
ExceptClause(a) ==
    [emit_done(emit_error(a, a.exc)) EXCEPT !.pc = "done", !.exc = ""]

\* Variant: the pre-retrieved sources are emitted whatever the policy.
SyncBeginAnyPolicy(a, pre) ==
    LET b == emit_start(a)
    IN  IF pre # <<>>
        THEN LET c == EmitSourcesAndMark(b, pre)
             IN  IF c.exc # "" THEN [c EXCEPT !.pc = "escaped"]
                 ELSE [c EXCEPT !.pc = "iterating"]
        ELSE [b EXCEPT !.pc = "iterating"]

\* Lines 450-456: the start frame and the pre-retrieved sources.  This part
\* is outside the try block: an exception raised here leaves the generator.
SyncBegin(a, pre) ==
    LET b == emit_start(a)
    IN  IF pre # <<>> /\ b.emit_sources_before_text
        THEN LET c == EmitSourcesAndMark(b, pre)
             IN  IF c.exc # "" THEN [c EXCEPT !.pc = "escaped"]
                 ELSE [c EXCEPT !.pc = "iterating"]
        ELSE [b EXCEPT !.pc = "iterating"]

\* Lines 459-460, one turn of the loop; with lines 474-477 when it raises.
SyncEvent(a, event) ==
    With(handle_event([a EXCEPT !.pos = @ + 1], event),
         LAMBDA b : IF b.exc # "" THEN ExceptClause(b) ELSE b)

\* Variant: the exhaustion path without its two `if` tests.
SyncExhaustedUnguarded(a) ==
    [emit_done(emit_finish(emit_reasoning_end(emit_text_end(a)))) EXCEPT !.pc = "done"]

\* Lines 462-472: the event stream is exhausted.
SyncExhausted(a) ==
    LET b == IF a.text_started THEN emit_text_end(a) ELSE a
        c == IF b.reasoning_started THEN emit_reasoning_end(b) ELSE b
    IN  [emit_done(emit_finish(c)) EXCEPT !.pc = "done"]

\* Lines 459 and 474-477: the event stream raises e.
SyncRaised(a, e) == ExceptClause(Raise(a, e))

\* Lines 495-501.
AsyncBegin(a, pre) ==
    LET b == emit_start(a)
    IN  IF pre # <<>> /\ b.emit_sources_before_text
        THEN LET c == EmitSourcesAndMark(b, pre)
             IN  IF c.exc # "" THEN [c EXCEPT !.pc = "escaped"]
                 ELSE [c EXCEPT !.pc = "iterating"]
        ELSE [b EXCEPT !.pc = "iterating"]

\* Lines 504-506, one turn of the loop; with lines 520-523 when it raises.
AsyncEvent(a, event) ==
    With(handle_event([a EXCEPT !.pos = @ + 1], event),
         LAMBDA b : IF b.exc # "" THEN ExceptClause(b) ELSE b)

\* Variant: the exhaustion path without lines 512-514.
AsyncExhaustedTextOnly(a) ==
    LET b == IF a.text_started THEN emit_text_end(a) ELSE a
    IN  [emit_done(emit_finish(b)) EXCEPT !.pc = "done"]

\* Lines 508-518.
AsyncExhausted(a) ==
    LET b == IF a.text_started THEN emit_text_end(a) ELSE a
        c == IF b.reasoning_started THEN emit_reasoning_end(b) ELSE b
    IN  [emit_done(emit_finish(c)) EXCEPT !.pc = "done"]

\* Lines 504 and 520-523.
AsyncRaised(a, e) == ExceptClause(Raise(a, e))

-----------------------------------------------------------------------------
(* message_sources_service: ai.message_sources and save_message_sources *)

\* uuid.UUID(value) accepts these spellings and yields the canonical one.
UuidSpellings ==
    [s \in {"0a0a0a0a-0000-4000-8000-00000000000a",
            "0A0A0A0A-0000-4000-8000-00000000000A",
            "{0a0a0a0a-0000-4000-8000-00000000000a}"} |->
        "0a0a0a0a-0000-4000-8000-00000000000a"]

\* _to_uuid: None for an empty value and for a string that is no UUID.
to_uuid(value) ==
    IF value = "" THEN ""
    ELSE IF value \in DOMAIN UuidSpellings THEN UuidSpellings[value]
    ELSE ""

\* Variant: the INSERT binds the default chunk_number for every source.
InsertParamsDefaultNumber(message_id, session_id, source) ==
    [message_id |-> message_id,
     session_id |-> session_id,
     source_id |-> source.source_id,
     source_type |-> source.source_type,
     chunk_number |-> 0,
     content_preview |-> source.content_preview,
     document_id |-> to_uuid(source.document_id),
     slide_number |-> source.slide_number,
     lecture_id |-> to_uuid(source.lecture_id),
     start_seconds |-> source.start_seconds,
     title |-> source.title]

\* The parameters bound by save_message_sources for one source (lines 47-62).
\* end_seconds, course_id and owner_id are bound the same way as
\* start_seconds, document_id and lecture_id and are left out.
InsertParams(message_id, session_id, source) ==
    [message_id |-> message_id,
     session_id |-> session_id,
     source_id |-> source.source_id,
     source_type |-> source.source_type,
     chunk_number |-> IF source.chunk_number \in {NoneInt, 0} THEN 0
                      ELSE source.chunk_number,
     content_preview |-> source.content_preview,
     document_id |-> to_uuid(source.document_id),
     slide_number |-> source.slide_number,
     lecture_id |-> to_uuid(source.lecture_id),
     start_seconds |-> source.start_seconds,
     title |-> source.title]

SameKey(r, row) == r.message_id = row.message_id /\ r.source_id = row.source_id

\* Variant: the INSERT without its ON CONFLICT clause.
InsertOrAbort(visible, row) ==
    IF \E r \in visible : SameKey(r, row)
    THEN [rows |-> {}, exc |-> "UniqueViolation"]
    ELSE [rows |-> {row}, exc |-> ""]

\* INSERT INTO ai.message_sources ... ON CONFLICT (message_id, source_id) DO
\* NOTHING, against the rows the transaction sees: the rows it adds, and the
\* error it raises ("" when none).
InsertOnConflictDoNothing(visible, row) ==
    IF \E r \in visible : SameKey(r, row)
    THEN [rows |-> {}, exc |-> ""]
    ELSE [rows |-> {row}, exc |-> ""]

NoCall == [message_id |-> "", session_id |-> "", sources |-> <<>>, next |-> 0,
           status |-> "none", n |-> 0, before |-> {}, repeat |-> FALSE]

Args(c) == [message_id |-> c.message_id, session_id |-> c.session_id,
            sources |-> c.sources]

-----------------------------------------------------------------------------
(* Inputs *)

SlideRef == Reference("map", "slide text", 1, "D1", 3, "", NoneInt, "Deck")
LectureRef == Reference("map", "lecture text", 2, "", NoneInt, "L1", 905, "")
NullMetadataRef == Reference("null", "broken", NoneInt, "", NoneInt, "", NoneInt, "")

Events ==
    { RunStartedEvent,
      RunContentEvent(<<>>, "", "Hello"),
      RunContentEvent(<<>>, "", "world"),
      RunContentEvent(<<MessageReferences("attr", <<SlideRef>>)>>, "think", "cited"),
      RunCompletedEvent("run-1", <<MessageReferences("attr", <<LectureRef>>)>>, "final"),
      RunErrorEvent("model overloaded"),
      RunErrorEvent(""),
      ReasoningStartedEvent,
      ReasoningStepEvent("step"),
      ReasoningCompletedEvent,
      ToolCallStartedEvent(Tool("", "", "", "")),
      ToolCallStartedEvent(NoTool),
      ToolCallCompletedEvent(NoTool),
      ToolCallCompletedEvent(Tool("call-1", "search_course_materials", "query", "context")),
      CustomEvent(<<SlideRef, LectureRef>>),
      CustomEvent(<<StrReference("plain"), NullMetadataRef>>) }

PreSource == RAGSource("slide-D9-1", "slide", "early", 1, "D9", 1, "", NoneInt, "")
UntypedSource == RAGSource("x", "", "", NoneInt, "", NoneInt, "", NoneInt, "")

PreRetrieved == { <<>>, <<PreSource>>, <<PreSource, UntypedSource>> }

UpstreamError == "upstream failure"

-----------------------------------------------------------------------------
(* The run of one response *)

InitAdapter ==
    /\ agno_stream = <<>>
    /\ stream_end = "open"
    /\ pre_retrieved_sources \in PreRetrieved
    /\ \E policy \in BOOLEAN :
          /\ sync = AgnoVercelAdapter(policy)
          /\ async = AgnoVercelAdapter(policy)

InitStore ==
    /\ store = {}
    /\ db = {}
    /\ call = NoCall
    /\ saved = {}
    /\ db2 = {}
    /\ call2 = NoCall

Users == {"u1", "u2"}

\* A conversation record of the conversation store: session.user_id.
AgentSession(session_id, user_id) == [session_id |-> session_id, user_id |-> user_id]

NoDelete == [session_id |-> "", user_id |-> "", pc |-> "done", status_code |-> 0,
             deleted |-> {}, committed |-> FALSE, n |-> 0]

InitSessions ==
    /\ sessions = {AgentSession("s1", "u1"), AgentSession("s2", "u2")}
    /\ del = NoDelete

\* generate_stream before its first frame is pulled.  pc is the place the
\* generator is at; persist and title record what the finally block did.
NoChat == [pc |-> "created", session_id |-> "", agent |-> FALSE,
           suspended |-> FALSE, stopped |-> FALSE, persist |-> "none",
           title |-> "none", raised |-> ""]

\* No format_retrieval_context call.
NoFormat == [references |-> <<>>, order_by |-> "", pc |-> "none",
             result |-> [value |-> <<>>, exc |-> ""]]

\* No extract_sources_from_references call.
NoExtract == [references |-> <<>>, pc |-> "none", uuids |-> 0, results |-> <<>>]

\* No load_sources_for_messages call.
NoLoad == [message_ids |-> {}, rows |-> {}, result |-> <<>>, n |-> 0]

\* A message of a run of the conversation store: msg.id ("" for None) and
\* msg.role.
Message(id, role) == [id |-> id, role |-> role]

\* A stored run of a conversation: run.run_id and run.messages.
Run(run_id, messages) == [run_id |-> run_id, messages |-> messages]

\* The conversation holds an earlier run, whose answer had no sources, and
\* no request for its messages has been made.
EarlierHistory ==
    [runs |-> <<Run("run-0", <<Message("q0", "user"), Message("m0", "assistant")>>)>>,
     response |-> <<>>, status_code |-> 0, n |-> 0, after_save |-> FALSE]

\* No extraction and no load yet, no adapter constructed, no response
\* being streamed.
InitMore ==
    /\ ext = NoExtract
    /\ adapters = <<>>
    /\ responses = <<>>
    /\ loaded = NoLoad
    /\ history = EarlierHistory

InitChat ==
    /\ chat = NoChat
    /\ fmt = NoFormat
    /\ InitMore

Init == InitAdapter /\ InitStore /\ InitSessions /\ InitChat

\* The consumer pulls the first frames of transform_stream_sync.
TransformStreamSyncBegin ==
    /\ sync.pc = "fresh"
    /\ sync' = SyncBegin(sync, pre_retrieved_sources)
    /\ UNCHANGED <<agno_stream, stream_end, pre_retrieved_sources, async, storeVars, restVars>>

\* The upstream delivers an event and the loop body handles it.
TransformStreamSyncEvent(max) ==
    /\ sync.pc = "iterating"
    /\ stream_end = "open"
    /\ Len(agno_stream) < max
    /\ \E event \in Events :
          /\ agno_stream' = Append(agno_stream, event)
          /\ sync' = SyncEvent(sync, event)
    /\ UNCHANGED <<stream_end, pre_retrieved_sources, async, storeVars, restVars>>

\* The upstream is exhausted.
TransformStreamSyncExhausted ==
    /\ sync.pc = "iterating"
    /\ stream_end = "open"
    /\ stream_end' = "exhausted"
    /\ sync' = SyncExhausted(sync)
    /\ UNCHANGED <<agno_stream, pre_retrieved_sources, async, storeVars, restVars>>

\* The upstream raises instead of delivering its next event.
TransformStreamSyncRaised ==
    /\ sync.pc = "iterating"
    /\ stream_end = "open"
    /\ stream_end' = "raised"
    /\ sync' = SyncRaised(sync, UpstreamError)
    /\ UNCHANGED <<agno_stream, pre_retrieved_sources, async, storeVars, restVars>>

Terminated(a) == a.pc \in {"done", "escaped"}

\* The same upstream and arguments are given to transform_stream on a fresh
\* adapter, once the blocking run has ended.
TransformStreamBegin ==
    /\ Terminated(sync)
    /\ async.pc = "fresh"
    /\ async' = AsyncBegin(async, pre_retrieved_sources)
    /\ UNCHANGED <<agno_stream, stream_end, pre_retrieved_sources, sync, storeVars, restVars>>

TransformStreamEvent ==
    /\ async.pc = "iterating"
    /\ async.pos < Len(agno_stream)
    /\ async' = AsyncEvent(async, agno_stream[async.pos + 1])
    /\ UNCHANGED <<agno_stream, stream_end, pre_retrieved_sources, sync, storeVars, restVars>>

TransformStreamExhausted ==
    /\ async.pc = "iterating"
    /\ async.pos = Len(agno_stream)
    /\ stream_end # "raised"
    /\ async' = AsyncExhausted(async)
    /\ UNCHANGED <<agno_stream, stream_end, pre_retrieved_sources, sync, storeVars, restVars>>

TransformStreamRaised ==
    /\ async.pc = "iterating"
    /\ async.pos = Len(agno_stream)
    /\ stream_end = "raised"
    /\ async' = AsyncRaised(async, UpstreamError)
    /\ UNCHANGED <<agno_stream, stream_end, pre_retrieved_sources, sync, storeVars, restVars>>

Next ==
    \/ TransformStreamSyncBegin
    \/ TransformStreamSyncEvent(MaxEvents)
    \/ TransformStreamSyncExhausted
    \/ TransformStreamSyncRaised

Spec == Init /\ [][Next]_vars

NextBoth ==
    \/ TransformStreamSyncBegin
    \/ TransformStreamSyncEvent(MaxEqEvents)
    \/ TransformStreamSyncExhausted
    \/ TransformStreamSyncRaised
    \/ TransformStreamBegin
    \/ TransformStreamEvent
    \/ TransformStreamExhausted
    \/ TransformStreamRaised

SpecBoth == Init /\ [][NextBoth]_vars

-----------------------------------------------------------------------------
(* Reading a frame sequence *)

Types(frames) == [i \in 1..Len(frames) |-> frames[i].type]

Positions(frames, types) == {i \in 1..Len(frames) : frames[i].type \in types}

Count(frames, types) == Cardinality(Positions(frames, types))

SourceTypes == {"source-document", "data-rag-source"}
ContentTypes == {"text-start", "text-delta", "reasoning-start", "reasoning-delta"}

\* The run ended inside the try block: by exhaustion, by an exception of the
\* event stream, or by an exception of the handling of an event.
Closed(a) == a.pc = "done"

-----------------------------------------------------------------------------
(* C1: however the event stream ends (exhausted, or raising during the      *)
(* iteration), the frames of transform_stream_sync and of transform_stream  *)
(* hold exactly one done frame, and it is the last frame.                   *)

DoneIsLast(a) ==
    /\ \A i \in Positions(a.frames, {"done"}) : i = Len(a.frames)
    /\ Closed(a) => Count(a.frames, {"done"}) = 1

C1_DoneTerminal == DoneIsLast(sync) /\ DoneIsLast(async)

C1_Witness ==
    /\ Closed(sync) /\ Closed(async)
    /\ stream_end = "raised"
    /\ Len(agno_stream) >= 1

-----------------------------------------------------------------------------
(* C2: the frames never hold both a finish frame and an error frame.        *)

C2_NeverFinishAndError ==
    ~(Count(sync.frames, {"finish"}) > 0 /\ Count(sync.frames, {"error"}) > 0)

-----------------------------------------------------------------------------
(* C3, as claimed: at most one text-start, text-end, reasoning-start and    *)
(* reasoning-end frame per run, each start before its end.                  *)

StartBeforeEnd(frames, start, end) ==
    \A j \in Positions(frames, {end}) : \E i \in Positions(frames, {start}) : i < j

Alternate(frames, start, end) ==
    \A n \in 0..Len(frames) :
        Count(SubSeq(frames, 1, n), {start}) - Count(SubSeq(frames, 1, n), {end})
            \in {0, 1}

-----------------------------------------------------------------------------
(* C4: sources are emitted at most once per response: once sources_emitted  *)
(* is true it stays true, and no later event emits a source-document or     *)
(* data-rag-source frame or appends to collected_sources.                   *)

C4_SourcesEmittedOnce ==
    [][ sync.sources_emitted =>
          /\ sync'.sources_emitted
          /\ sync'.collected_sources = sync.collected_sources
          /\ Count(sync'.frames, SourceTypes) = Count(sync.frames, SourceTypes) ]_vars

-----------------------------------------------------------------------------
(* C5: every run-error event handled has put exactly one error frame, with  *)
(* the event's text or the generic message, and once a run-error event was  *)
(* handled no later event adds a text-start, text-delta, reasoning-start or *)
(* reasoning-delta frame.                                                   *)

RunErrors == {i \in 1..Len(agno_stream) : agno_stream[i].kind = "RunError"}

ErrorTextOf(event) == IF event.content # "" THEN event.content ELSE GenericError

C5_ErrorEndsContent ==
    [][ /\ (sync.pc = "iterating" =>
              /\ Count(sync.frames, {"error"}) = Cardinality(RunErrors)
              /\ \A i \in RunErrors :
                    \E j \in Positions(sync.frames, {"error"}) :
                        sync.frames[j].text = ErrorTextOf(agno_stream[i]))
        /\ (sync.pc = "iterating" /\ RunErrors # {} =>
              Count(sync'.frames, ContentTypes) = Count(sync.frames, ContentTypes)) ]_vars

-----------------------------------------------------------------------------
(* C6: one text content event and then an upstream error - a run-error      *)
(* event followed by exhaustion, or an exception of the event stream -      *)
(* gives exactly start, text-start, text-delta, error, done; and an         *)
(* exception during the iteration is followed by exactly error, done, with  *)
(* no block end and no finish.                                              *)

IsTextOnly(event) ==
    /\ event.kind = "RunContent"
    /\ event.content # ""
    /\ event.reasoning_content = ""
    /\ event.references = <<>>

TextThenError ==
    /\ Closed(sync)
    /\ pre_retrieved_sources = <<>>
    /\ \/ /\ Len(agno_stream) = 1
          /\ IsTextOnly(agno_stream[1])
          /\ stream_end = "raised"
       \/ /\ Len(agno_stream) = 2
          /\ IsTextOnly(agno_stream[1])
          /\ agno_stream[2].kind = "RunError"
          /\ stream_end = "exhausted"

C6_MidStreamFailure ==
    /\ TextThenError =>
          Types(sync.frames) = <<"start", "text-start", "text-delta", "error", "done">>
    /\ Closed(sync) /\ stream_end = "raised" =>
          /\ Len(sync.frames) >= 2
          /\ sync.frames[Len(sync.frames) - 1].type = "error"
          /\ sync.frames[Len(sync.frames)].type = "done"
          /\ Count(sync.frames, {"text-end", "finish"}) = 0

-----------------------------------------------------------------------------
(* C7: no failure raised while the adapter produces frames leaves the frame *)
(* iterator; each one becomes an error frame followed by done.              *)

C7_NoFailureEscapes ==
    /\ sync.pc # "escaped"
    /\ sync.exc = ""

-----------------------------------------------------------------------------
(* C8: a stream of content-delta events that carry only answer text, with   *)
(* no pre-retrieved sources, gives exactly: start, text-start, one          *)
(* text-delta per event in event order with the event's text and the text   *)
(* block's id, text-end, finish, done.                                      *)

SimpleTextRun ==
    /\ Closed(sync)
    /\ stream_end = "exhausted"
    /\ pre_retrieved_sources = <<>>
    /\ Len(agno_stream) >= 1
    /\ \A i \in 1..Len(agno_stream) : IsTextOnly(agno_stream[i])

SimpleTextFrames(a) ==
    <<Frame("start", a.message_id, "", "", NoData),
      Frame("text-start", a.text_block_id, "", "", NoData)>>
    \o [i \in 1..Len(agno_stream) |->
          Frame("text-delta", a.text_block_id, agno_stream[i].content, "", NoData)]
    \o <<Frame("text-end", a.text_block_id, "", "", NoData),
         Frame("finish", "", "", "", NoData),
         Frame("done", "", "", "", NoData)>>

C8_SimpleText ==
    SimpleTextRun =>
        /\ sync.frames = SimpleTextFrames(sync)
        /\ sync.text_block_id # ""

C8_Witness ==
    /\ SimpleTextRun
    /\ Len(agno_stream) = 2
    /\ agno_stream[1].content # agno_stream[2].content

-----------------------------------------------------------------------------
(* C9: on the same events, end of stream and pre-retrieved sources, started *)
(* from fresh adapters, transform_stream yields the frames of               *)
(* transform_stream_sync (generated ids taken in the same order) and leaves *)
(* the same adapter state.                                                  *)

C9_SameFraming == Terminated(async) => async = sync

C9_Witness ==
    /\ Closed(async)
    /\ stream_end = "raised"
    /\ Len(agno_stream) = 2
    /\ async.collected_sources # <<>>
    /\ async.reasoning_started

-----------------------------------------------------------------------------
(* Saving the sources of a message *)

SourceA == RAGSource("slide-D1-3", "slide", "slide text", 1,
                     "0A0A0A0A-0000-4000-8000-00000000000A", 3, "", NoneInt, "Deck")
SourceB == RAGSource("lecture-L1-90", "lecture", "lecture text", 2,
                     "", NoneInt, "L1", 905, "")
\* The slide of SourceA as a later search numbers and previews it.
SourceA2 == RAGSource("slide-D1-3", "slide", "slide text, again", NoneInt,
                      "0a0a0a0a-0000-4000-8000-00000000000a", 3, "", NoneInt, "Deck")

SourceLists == { <<>>, <<SourceA>>, <<SourceA, SourceB>>, <<SourceB, SourceA2>>,
                 <<SourceA, SourceA>> }
MessageIds == {"m1", "m2"}
SessionIds == {"s1", "s2"}
\* The (message id, session id) pairs of the messages of each conversation:
\* the endpoint saves under the session it loaded the message from.
SessionMessages == {<<"m1", "s1">>, <<"m2", "s2">>}

\* The call record of save_message_sources(db, message_id, session_id,
\* sources) on a new database session (main.py 689-696); lines 30-31 return
\* at once when there are no sources.
NewCall(c, message_id, session_id, sources) ==
    [message_id |-> message_id, session_id |-> session_id,
     sources |-> sources, next |-> 1,
     status |-> IF sources = <<>> THEN "returned" ELSE "executing",
     n |-> c.n + 1, before |-> store,
     repeat |-> [message_id |-> message_id, session_id |-> session_id,
                 sources |-> sources] \in saved]

CallOver(c) == c.status \in {"none", "returned", "committed", "raised"}

\* The row the next db.execute of the call inserts.
NextRow(c) == InsertParams(c.message_id, c.session_id, c.sources[c.next])

\* The INSERT of a row whose key was inserted by a transaction that is still
\* open waits for that transaction to end (PostgreSQL, unique index).
Waits(c, theirs) ==
    /\ c.status = "executing"
    /\ c.next <= Len(c.sources)
    /\ ~ \E r \in store : SameKey(r, NextRow(c))
    /\ \E r \in theirs : SameKey(r, NextRow(c))

\* Lines 33-63, one turn of the loop: db.execute of the INSERT.  An error of
\* the statement leaves the function; the session is closed without commit.
Execute(c, cnext, mine, minenext, theirs) ==
    /\ c.status = "executing"
    /\ c.next <= Len(c.sources)
    /\ ~ Waits(c, theirs)
    /\ LET r == InsertOnConflictDoNothing(store \cup mine, NextRow(c))
       IN  IF r.exc # ""
           THEN /\ cnext = [c EXCEPT !.status = "raised"]
                /\ minenext = {}
           ELSE /\ cnext = [c EXCEPT !.next = @ + 1]
                /\ minenext = mine \cup r.rows

\* Line 64: db.commit().
Commit(c, cnext, mine, minenext) ==
    /\ c.status = "executing"
    /\ c.next > Len(c.sources)
    /\ store' = store \cup mine
    /\ minenext = {}
    /\ cnext = [c EXCEPT !.status = "committed"]
    /\ saved' = saved \cup {Args(c)}

SaveMessageSourcesCallFor(ids) ==
    /\ CallOver(call)
    /\ call.n < MaxCalls
    /\ \E id \in ids, sources \in SourceLists :
          call' = NewCall(call, id[1], id[2], sources)
    /\ db' = {}
    /\ UNCHANGED <<store, saved, adapterVars, restVars>>

SaveMessageSourcesCall == SaveMessageSourcesCallFor(MessageIds \X SessionIds)

SaveMessageSourcesExecute ==
    /\ Execute(call, call', db, db', db2)
    /\ UNCHANGED <<store, saved, adapterVars, restVars>>

SaveMessageSourcesCommit ==
    /\ Commit(call, call', db, db')
    /\ UNCHANGED <<adapterVars, restVars>>

InitIdle ==
    /\ agno_stream = <<>>
    /\ stream_end = "open"
    /\ pre_retrieved_sources = <<>>
    /\ sync = AgnoVercelAdapter(TRUE)
    /\ async = AgnoVercelAdapter(TRUE)

NextStore ==
    \/ SaveMessageSourcesCall
    \/ SaveMessageSourcesExecute
    \/ SaveMessageSourcesCommit

InitSave == InitIdle /\ InitStore /\ InitSessions /\ InitChat

SpecStore == InitSave /\ [][NextStore]_vars

-----------------------------------------------------------------------------
(* C10: save is idempotent: a save whose arguments were saved before        *)
(* reports no error and leaves the store as it was, and the store holds     *)
(* exactly one row for each (message id, source id) saved.                  *)

RowsOf(message_id, source_id) ==
    {r \in store : r.message_id = message_id /\ r.source_id = source_id}

C10_SaveIdempotent ==
    /\ call.repeat => call.status # "raised"
    /\ call.repeat /\ call.status = "committed" => store = call.before
    /\ \A a \in saved : \A i \in 1..Len(a.sources) :
          Cardinality(RowsOf(a.message_id, a.sources[i].source_id)) = 1

C10_Witness ==
    /\ call.repeat
    /\ call.status = "committed"
    /\ Len(call.sources) = 2
    /\ call.n = 2

-----------------------------------------------------------------------------
(* Two requests saving at the same time *)

\* save_message_sources on the second database session.
PeerSaveCall ==
    /\ CallOver(call2)
    /\ call2.n < MaxPeerCalls
    /\ \E id \in SessionMessages, sources \in SourceLists :
          call2' = NewCall(call2, id[1], id[2], sources)
    /\ db2' = {}
    /\ UNCHANGED <<adapterVars, storeVars, sessionVars, laterVars>>

PeerSaveExecute ==
    /\ Execute(call2, call2', db2, db2', db)
    /\ UNCHANGED <<adapterVars, storeVars, sessionVars, laterVars>>

PeerSaveCommit ==
    /\ Commit(call2, call2', db2, db2')
    /\ UNCHANGED <<adapterVars, db, call, sessionVars, laterVars>>

\* Each session waits for the other to end: the database aborts one of the
\* two transactions, whose db.execute raises.
DeadlockDetected ==
    /\ Waits(call, db2)
    /\ Waits(call2, db)
    /\ \/ /\ call' = [call EXCEPT !.status = "raised"]
          /\ db' = {}
          /\ UNCHANGED <<db2, call2>>
       \/ /\ call2' = [call2 EXCEPT !.status = "raised"]
          /\ db2' = {}
          /\ UNCHANGED <<db, call>>
    /\ UNCHANGED <<store, saved, adapterVars, sessionVars, laterVars>>

NextConcurrent ==
    \/ call.n < MaxPeerCalls /\ SaveMessageSourcesCallFor(SessionMessages)
    \/ SaveMessageSourcesExecute
    \/ SaveMessageSourcesCommit
    \/ PeerSaveCall
    \/ PeerSaveExecute
    \/ PeerSaveCommit
    \/ DeadlockDetected

SpecConcurrent == InitSave /\ [][NextConcurrent]_vars

-----------------------------------------------------------------------------
(* C11: two saves that run at the same time on separate database sessions   *)
(* both end without an error, and once both are over the store holds        *)
(* exactly one row for each (message id, source id) either of them saved.   *)

C11_ConcurrentSavesSucceed ==
    /\ call.status # "raised"
    /\ call2.status # "raised"
    /\ call.status = "committed" /\ call2.status = "committed" =>
          \A c \in {call, call2} : \A i \in 1..Len(c.sources) :
             Cardinality(RowsOf(c.message_id, c.sources[i].source_id)) = 1

-----------------------------------------------------------------------------
(* Loading and deleting the sources of a conversation *)

\* The dict load_sources_for_messages appends for a row (lines 92-107):
\* message_id and session_id are not part of it; str() of a stored UUID is
\* its canonical text.
SourceDict(row) ==
    [source_id |-> row.source_id,
     source_type |-> row.source_type,
     chunk_number |-> row.chunk_number,
     content_preview |-> row.content_preview,
     document_id |-> IF row.document_id # "" THEN row.document_id ELSE "",
     slide_number |-> row.slide_number,
     lecture_id |-> IF row.lecture_id # "" THEN row.lecture_id ELSE "",
     start_seconds |-> row.start_seconds,
     title |-> row.title]

\* Variant: the SELECT without its WHERE clause.
SelectOrdersOfAllRows(rows, message_ids) ==
    LET selected == rows
        n == Cardinality(selected)
    IN  {q \in [1..n -> selected] :
            /\ \A i, j \in 1..n : i # j => q[i] # q[j]
            /\ \A i \in 1..(n - 1) : q[i].chunk_number <= q[i + 1].chunk_number}

\* SELECT ... WHERE message_id = ANY(:message_ids) ORDER BY chunk_number ASC:
\* the orders in which the database may return the rows (rows of equal
\* chunk_number in any order).
SelectOrders(rows, message_ids) ==
    LET selected == {r \in rows : r.message_id \in message_ids}
        n == Cardinality(selected)
    IN  {q \in [1..n -> selected] :
            /\ \A i, j \in 1..n : i # j => q[i] # q[j]
            /\ \A i \in 1..(n - 1) : q[i].chunk_number <= q[i + 1].chunk_number}

\* Lines 89-109: the list built for one message id, in result order.
GroupOf(q, message_id) ==
    LET Mine(r) == r.message_id = message_id
        mine == SelectSeq(q, Mine)
    IN  [i \in 1..Len(mine) |-> SourceDict(mine[i])]

\* load_sources_for_messages(db, message_ids): the dicts (message id ->
\* list of source dicts) it may return.
load_sources_for_messages(rows, message_ids) ==
    IF message_ids = {} THEN {<<>>}
    ELSE {[message_id \in {q[i].message_id : i \in DOMAIN q} |-> GroupOf(q, message_id)] :
             q \in SelectOrders(rows, message_ids)}

\* Variant: the DELETE without its WHERE clause.
DeleteEveryRow(rows, session_id) == rows

\* DELETE FROM ai.message_sources WHERE session_id = :session_id: the rows
\* the statement removes.
DeleteWhereSession(rows, session_id) == {r \in rows : r.session_id = session_id}

\* Variant: the conversation record is deleted before its sources.
DeleteSessionRecordFirst(pc) ==
    CASE pc = "get_session" -> "delete_session"
      [] pc = "delete_session" -> "execute"
      [] pc = "execute" -> "commit"
      [] pc = "commit" -> "done"

\* delete_session, lines 873-880: the statement that follows each statement.
DeleteSessionOrder(pc) ==
    CASE pc = "get_session" -> "execute"
      [] pc = "execute" -> "commit"
      [] pc = "commit" -> "delete_session"
      [] pc = "delete_session" -> "done"

\* DELETE /api/sessions/{session_id} by an authenticated user.
DeleteSessionRequest ==
    /\ del.pc = "done"
    /\ del.n < MaxDeletes
    /\ \E session_id \in SessionIds, user_id \in Users :
          del' = [session_id |-> session_id, user_id |-> user_id,
                  pc |-> "get_session", status_code |-> 0, deleted |-> {},
                  committed |-> FALSE, n |-> del.n + 1]
    /\ UNCHANGED <<adapterVars, storeVars, peerVars, sessions, laterVars>>

\* Lines 873-876: 404 unless the conversation exists and belongs to the user.
DeleteSessionVerify ==
    /\ del.pc = "get_session"
    /\ IF AgentSession(del.session_id, del.user_id) \in sessions
       THEN del' = [del EXCEPT !.pc = DeleteSessionOrder(del.pc)]
       ELSE del' = [del EXCEPT !.pc = "done", !.status_code = 404]
    /\ UNCHANGED <<adapterVars, storeVars, peerVars, sessions, laterVars>>

\* delete_sources_for_session, lines 120-123: db.execute of the DELETE, on
\* the rows committed when the statement runs.
DeleteSourcesExecute ==
    /\ del.pc = "execute"
    /\ del' = [del EXCEPT !.pc = DeleteSessionOrder(del.pc),
                          !.deleted = DeleteWhereSession(store, del.session_id)]
    /\ UNCHANGED <<adapterVars, storeVars, peerVars, sessions, laterVars>>

\* delete_sources_for_session, line 124: db.commit().
DeleteSourcesCommit ==
    /\ del.pc = "commit"
    /\ store' = store \ del.deleted
    /\ saved' = {a \in saved : a.session_id # del.session_id}
    /\ del' = [del EXCEPT !.pc = DeleteSessionOrder(del.pc), !.committed = TRUE]
    /\ UNCHANGED <<adapterVars, db, call, peerVars, sessions, laterVars>>

\* Line 879: agent.delete_session removes the conversation record; line 880
\* answers 204.
DeleteSessionRecord ==
    /\ del.pc = "delete_session"
    /\ sessions' = {x \in sessions : x.session_id # del.session_id}
    /\ del' = [del EXCEPT !.pc = DeleteSessionOrder(del.pc), !.status_code = 204]
    /\ UNCHANGED <<adapterVars, storeVars, peerVars, laterVars>>

\* Requests served one after the other.
NextDelete ==
    \/ del.pc = "done" /\ SaveMessageSourcesCallFor(SessionMessages)
    \/ SaveMessageSourcesExecute
    \/ SaveMessageSourcesCommit
    \/ CallOver(call) /\ DeleteSessionRequest
    \/ DeleteSessionVerify
    \/ DeleteSourcesExecute
    \/ DeleteSourcesCommit
    \/ DeleteSessionRecord

SpecDelete == InitSave /\ [][NextDelete]_vars

\* A delete_session request served while a response saves its sources.
NextSession ==
    \/ call.n < MaxSessionCalls /\ SaveMessageSourcesCallFor(SessionMessages)
    \/ SaveMessageSourcesExecute
    \/ SaveMessageSourcesCommit
    \/ DeleteSessionRequest
    \/ DeleteSessionVerify
    \/ DeleteSourcesExecute
    \/ DeleteSourcesCommit
    \/ DeleteSessionRecord

SpecSession == InitSave /\ [][NextSession]_vars

MessagesOfSession(session_id) ==
    {id[1] : id \in {x \in SessionMessages : x[2] = session_id}}

-----------------------------------------------------------------------------
(* C12: the commit of delete_sources_for_session(session_id) leaves the     *)
(* store without the rows of that session and with every row of the other   *)
(* sessions, and load_sources_for_messages on the message ids of the        *)
(* session then returns no sources.                                         *)

C12_DeleteForSession ==
    [][del.pc = "commit" /\ del'.pc # "commit" =>
          /\ store' = {r \in store : r.session_id # del.session_id}
          /\ \A result \in load_sources_for_messages(store', MessagesOfSession(del.session_id)) :
                DOMAIN result = {}]_vars

C12_Witness ==
    /\ del.committed
    /\ Cardinality(del.deleted) = 2
    /\ store # {}
    /\ \A r \in store : r.session_id # del.session_id

-----------------------------------------------------------------------------
(* C13: delete_session deletes the conversation record only after the       *)
(* deletion of the sources of the session has been committed.               *)

C13_SourcesDeletedFirst ==
    [][\A x \in sessions \ sessions' :
          /\ x.session_id = del.session_id
          /\ del.committed
          /\ del'.committed]_vars

C13_Witness ==
    /\ del.status_code = 204
    /\ del.deleted # {}
    /\ \A x \in sessions : x.session_id # del.session_id

-----------------------------------------------------------------------------
(* The chat endpoint: generate_stream of chat_stream *)

\* What the try block of generate_stream does before the adapter runs
\* (lines 643-662): create_search_tool or create_chat_agent raises, agent.run
\* raises, or the upstream stream is obtained.
SetupOutcomes ==
    { [exc |-> "tool setup failed", agent |-> FALSE],
      [exc |-> "agent.run failed", agent |-> TRUE],
      [exc |-> "", agent |-> TRUE] }

\* payload.session_id: absent, or the id of a conversation.
PayloadSessionIds == {"", "s1"}

\* Exceptions of class Exception raised by the collaborators of the finally
\* block; GeneratorExit is a BaseException.
Exceptions == {"tool setup failed", "agent.run failed", "get_session failed",
               "OperationalError", "set_session_name failed"}

\* Variant: the block without its except clause.
NoExceptClause(e) == e

\* `except Exception as e: logger.warning(...)` (lines 697-698, 717-718):
\* the exception that leaves the try statement.
ExceptExceptionClause(e) == IF e \in Exceptions THEN "" ELSE e

\* Lines 678-696, up to the call of save_message_sources: get_session
\* raises, there is no session, no run or no assistant message with an id,
\* or the id of the assistant message found.
LookupOutcomes == {"raised", "no_session", "no_run", "no_message", "m1"}

\* Lines 701-716: get_session or set_session_name raises, there is no
\* session, the session has a name, or a name is generated.
TitleOutcomes == {"raised", "no_session", "named", "generated"}

\* The first frame is pulled: lines 640-665, or 667-669 when the set-up
\* raises.
ChatSetup ==
    /\ chat.pc = "created"
    /\ \E session_id \in PayloadSessionIds, outcome \in SetupOutcomes :
          IF outcome.exc = ""
          THEN /\ sync' = SyncBegin(sync, <<>>)
               /\ chat' = [chat EXCEPT !.pc = "streaming", !.session_id = session_id,
                                       !.agent = TRUE, !.suspended = TRUE]
          ELSE /\ sync' = emit_error(sync, "Stream error: " \o outcome.exc)
               /\ chat' = [chat EXCEPT !.pc = "except", !.session_id = session_id,
                                       !.agent = outcome.agent, !.suspended = TRUE]
    /\ UNCHANGED <<agno_stream, stream_end, pre_retrieved_sources, async, storeVars,
                   peerVars, sessionVars, formatVars, moreVars>>

\* Line 669: the done frame of the except clause.
ChatExceptDone ==
    /\ chat.pc = "except"
    /\ sync' = emit_done(sync)
    /\ chat' = [chat EXCEPT !.pc = "except_done"]
    /\ UNCHANGED <<agno_stream, stream_end, pre_retrieved_sources, async, storeVars,
                   peerVars, sessionVars, formatVars, moreVars>>

\* Lines 664-665, one upstream event: the generator is suspended again only
\* if the event yields a frame.
ChatStreamEventOf(events, max) ==
    /\ chat.pc = "streaming"
    /\ sync.pc = "iterating"
    /\ stream_end = "open"
    /\ Len(agno_stream) < max
    /\ \E event \in events :
          /\ agno_stream' = Append(agno_stream, event)
          /\ sync' = SyncEvent(sync, event)
    /\ chat' = [chat EXCEPT !.suspended = Len(sync'.frames) > Len(sync.frames)]
    /\ UNCHANGED <<stream_end, pre_retrieved_sources, async, storeVars, peerVars,
                   sessionVars, formatVars, moreVars>>

\* The upstream of the response delivers any event.
ChatStreamEvent ==
    /\ ChatStreamEventOf(Events, MaxChatEvents)

ChatStreamExhausted ==
    /\ chat.pc = "streaming"
    /\ sync.pc = "iterating"
    /\ stream_end = "open"
    /\ stream_end' = "exhausted"
    /\ sync' = SyncExhausted(sync)
    /\ chat' = [chat EXCEPT !.suspended = TRUE]
    /\ UNCHANGED <<agno_stream, pre_retrieved_sources, async, storeVars, peerVars,
                   sessionVars, formatVars, moreVars>>

ChatStreamRaised ==
    /\ chat.pc = "streaming"
    /\ sync.pc = "iterating"
    /\ stream_end = "open"
    /\ stream_end' = "raised"
    /\ sync' = SyncRaised(sync, UpstreamError)
    /\ chat' = [chat EXCEPT !.suspended = TRUE]
    /\ UNCHANGED <<agno_stream, pre_retrieved_sources, async, storeVars, peerVars,
                   sessionVars, formatVars, moreVars>>

\* The consumer stops pulling while the generator is suspended at a yield:
\* the generator is closed, GeneratorExit is raised at the yield, passes the
\* `except Exception` clause and runs the finally block.
ConsumerStops ==
    /\ chat.pc \in {"streaming", "except", "except_done"}
    /\ chat.suspended
    /\ chat' = [chat EXCEPT !.pc = "finally", !.stopped = TRUE]
    /\ UNCHANGED <<adapterVars, storeVars, peerVars, sessionVars, formatVars, moreVars>>

\* Variant: an exception of the upstream, handled by the except clause of the
\* adapter, also reaches the except clause of the endpoint.
ChatStreamOverReraised ==
    /\ \/ chat.pc = "streaming" /\ sync.pc = "done"
       \/ chat.pc = "except_done"
    /\ IF chat.pc = "streaming" /\ stream_end = "raised"
       THEN /\ sync' = emit_error(sync, "Stream error: " \o UpstreamError)
            /\ chat' = [chat EXCEPT !.pc = "except"]
       ELSE /\ sync' = sync
            /\ chat' = [chat EXCEPT !.pc = "finally"]
    /\ UNCHANGED <<agno_stream, stream_end, pre_retrieved_sources, async, storeVars,
                   peerVars, sessionVars, formatVars, moreVars>>

\* The consumer pulls after the last frame: the loop, or the except clause,
\* is over.
ChatStreamOver ==
    /\ \/ chat.pc = "streaming" /\ sync.pc = "done"
       \/ chat.pc = "except_done"
    /\ chat' = [chat EXCEPT !.pc = "finally"]
    /\ UNCHANGED <<adapterVars, storeVars, peerVars, sessionVars, formatVars, moreVars>>

\* Lines 670-698, up to the call of save_message_sources on a new database
\* session, when the look-up of lines 682-688 ends in one of outcomes.
ChatFinallyGiven(outcomes) ==
    /\ chat.pc = "finally"
    /\ IF chat.session_id = "" \/ ~ chat.agent
       THEN /\ chat' = [chat EXCEPT !.pc = "closed"]
            /\ UNCHANGED <<db, call>>
       ELSE IF sync.collected_sources = <<>> \/ sync.agno_run_id = ""
       THEN /\ chat' = [chat EXCEPT !.pc = "title", !.persist = "skipped"]
            /\ UNCHANGED <<db, call>>
       ELSE \E outcome \in outcomes :
               IF outcome = "raised"
               THEN /\ chat' = [chat EXCEPT
                                  !.persist = "lookup_raised",
                                  !.raised = ExceptExceptionClause("get_session failed"),
                                  !.pc = IF ExceptExceptionClause("get_session failed") = ""
                                         THEN "title" ELSE "closed"]
                    /\ UNCHANGED <<db, call>>
               ELSE IF outcome \in {"no_session", "no_run", "no_message"}
               THEN /\ chat' = [chat EXCEPT !.pc = "title", !.persist = outcome]
                    /\ UNCHANGED <<db, call>>
               ELSE /\ chat' = [chat EXCEPT !.pc = "persisting", !.persist = "saving"]
                    /\ call' = NewCall(call, outcome, chat.session_id, sync.collected_sources)
                    /\ db' = {}
    /\ UNCHANGED <<adapterVars, store, saved, peerVars, sessionVars, formatVars, moreVars>>

\* The finally block, whatever the conversation store holds.
ChatFinally ==
    /\ ChatFinallyGiven(LookupOutcomes)

\* The database fails a statement of the save: db.execute raises.
ChatSaveRaises ==
    /\ chat.pc = "persisting"
    /\ call.status = "executing"
    /\ call' = [call EXCEPT !.status = "raised"]
    /\ db' = {}
    /\ UNCHANGED <<adapterVars, store, saved, peerVars, sessionVars, chat, formatVars, moreVars>>

\* save_message_sources has returned or raised (lines 689-698).
ChatPersistOver ==
    /\ chat.pc = "persisting"
    /\ CallOver(call)
    /\ IF call.status = "raised"
       THEN chat' = [chat EXCEPT
                       !.persist = "save_raised",
                       !.raised = ExceptExceptionClause("OperationalError"),
                       !.pc = IF ExceptExceptionClause("OperationalError") = ""
                              THEN "title" ELSE "closed"]
       ELSE chat' = [chat EXCEPT !.pc = "title", !.persist = "saved"]
    /\ UNCHANGED <<adapterVars, storeVars, peerVars, sessionVars, formatVars, moreVars>>

\* Lines 700-718: the session title (its text is not modelled).
ChatTitle ==
    /\ chat.pc = "title"
    /\ \E outcome \in TitleOutcomes :
          chat' = [chat EXCEPT
                     !.pc = "closed",
                     !.title = outcome,
                     !.raised = IF outcome = "raised"
                                THEN ExceptExceptionClause("set_session_name failed")
                                ELSE ""]
    /\ UNCHANGED <<adapterVars, storeVars, peerVars, sessionVars, formatVars, moreVars>>

NextChat ==
    \/ ChatSetup
    \/ ChatExceptDone
    \/ ChatStreamEvent
    \/ ChatStreamExhausted
    \/ ChatStreamRaised
    \/ ConsumerStops
    \/ ChatStreamOver
    \/ ChatFinally
    \/ SaveMessageSourcesExecute
    \/ SaveMessageSourcesCommit
    \/ ChatSaveRaises
    \/ ChatPersistOver
    \/ ChatTitle

SpecChat == InitSave /\ [][NextChat]_vars

\* The consumer was handed the done frame.
DoneDelivered == Count(sync.frames, {"done"}) > 0

\* save_message_sources was called for the response.
SaveCalled == chat.persist \in {"saving", "saved", "save_raised"}

-----------------------------------------------------------------------------
(* C14: save_message_sources is called for a response only if the consumer  *)
(* has pulled the frames up to done; a consumer that stopped earlier gets    *)
(* no save.                                                                  *)

C14_PersistOnlyAfterExhaustion ==
    SaveCalled => DoneDelivered

-----------------------------------------------------------------------------
(* C15: a failure in the finally block (session or run lookup, save, title) *)
(* leaves the frames of the response as they were and does not leave the    *)
(* generator, and the title is attempted also when the persistence failed.  *)

C15_SideEffectsBestEffort ==
    [][/\ chat.pc \in {"finally", "persisting", "title"} => sync'.frames = sync.frames
       /\ chat'.raised = ""
       /\ chat'.pc = "closed" /\ chat'.persist \in {"lookup_raised", "save_raised"} =>
             chat'.title # "none"]_vars

C15_Witness ==
    /\ chat.pc = "closed"
    /\ chat.persist = "save_raised"
    /\ chat.title = "raised"
    /\ DoneDelivered

-----------------------------------------------------------------------------
(* Context formatter (app/agents/context_formatter.py) *)

TypeErrorLess == "'<' not supported between instances of 'NoneType' and 'int'"
AttributeErrorStrip == "'NoneType' object has no attribute 'strip'"

\* f"{n:02d}"
Pad2(n) == IF n < 10 THEN "0" \o ToString(n) ELSE ToString(n)

\* _format_timestamp(seconds), seconds given in tenths of a second.
format_timestamp(seconds) ==
    LET total_seconds == seconds \div 10
        hours == total_seconds \div 3600
        remainder == total_seconds % 3600
        minutes == remainder \div 60
        secs == remainder % 60
    IN  IF hours > 0
        THEN ToString(hours) \o ":" \o Pad2(minutes) \o ":" \o Pad2(secs)
        ELSE ToString(minutes) \o ":" \o Pad2(secs)

\* meta.get(key) of a reference whose metadata is not None.
MetaText(ref, value) == IF ref.metadata = "map" THEN value ELSE ""
MetaNumber(ref, value) == IF ref.metadata = "map" THEN value ELSE NoneInt

\* Variant: the hint that tests the lecture id before the document id.
get_source_hint_lecture_first(ref) ==
    IF ref.metadata = "null"
    THEN [value |-> "", exc |-> AttributeErrorGet]
    ELSE IF MetaText(ref, ref.lecture_id) # ""
    THEN LET start == MetaNumber(ref, ref.start_seconds)
         IN  IF start = NullInt
             THEN [value |-> "", exc |-> TypeErrorInt]
             ELSE [value |-> "Lecture @" \o
                             format_timestamp(IF start = NoneInt THEN 0 ELSE start),
                   exc |-> ""]
    ELSE IF MetaText(ref, ref.document_id) # ""
    THEN LET slide_num == MetaNumber(ref, ref.slide_number)
         IN  [value |-> "Slide " \o (IF slide_num = NoneInt THEN "?"
                                     ELSE IF slide_num = NullInt THEN "None"
                                     ELSE ToString(slide_num)),
              exc |-> ""]
    ELSE [value |-> "Source", exc |-> ""]

\* _get_source_hint(ref): the hint, or the exception raised.
get_source_hint(ref) ==
    IF ref.metadata = "null"
    THEN [value |-> "", exc |-> AttributeErrorGet]
    ELSE IF MetaText(ref, ref.document_id) # ""
    THEN LET slide_num == MetaNumber(ref, ref.slide_number)
         IN  [value |-> "Slide " \o (IF slide_num = NoneInt THEN "?"
                                     ELSE IF slide_num = NullInt THEN "None"
                                     ELSE ToString(slide_num)),
              exc |-> ""]
    ELSE IF MetaText(ref, ref.lecture_id) # ""
    THEN LET start == MetaNumber(ref, ref.start_seconds)
         IN  IF start = NullInt
             THEN [value |-> "", exc |-> TypeErrorInt]
             ELSE [value |-> "Lecture @" \o
                             format_timestamp(IF start = NoneInt THEN 0 ELSE start),
                   exc |-> ""]
    ELSE [value |-> "Source", exc |-> ""]

\* _extract_sort_key_slide(ref): (document_id, slide_number), 0 when absent.
extract_sort_key_slide(ref) ==
    LET slide_number == MetaNumber(ref, ref.slide_number)
    IN  <<MetaText(ref, ref.document_id),
          IF slide_number = NoneInt THEN 0 ELSE slide_number>>

\* _extract_sort_key_lecture(ref): (lecture_id, start_seconds), 0.0 when absent.
extract_sort_key_lecture(ref) ==
    LET start_seconds == MetaNumber(ref, ref.start_seconds)
    IN  <<MetaText(ref, ref.lecture_id),
          IF start_seconds = NoneInt THEN 0 ELSE start_seconds>>

\* The ids of the references, in the order of Python's str comparison.
IdOrder == <<"", "D1", "D2", "L1", "L2">>

StrLess(a, b) ==
    (CHOOSE i \in DOMAIN IdOrder : IdOrder[i] = a) < (CHOOSE i \in DOMAIN IdOrder : IdOrder[i] = b)

\* k1 < k2 on the key tuples raises TypeError when the ids are equal and
\* exactly one of the numbers is None.
KeyLessRaises(k1, k2) ==
    k1[1] = k2[1] /\ k1[2] # k2[2] /\ (k1[2] = NullInt \/ k2[2] = NullInt)

\* k1 < k2 on key tuples that can be compared.
KeyLess(k1, k2) ==
    \/ k1[1] # k2[1] /\ StrLess(k1[1], k2[1])
    \/ k1[1] = k2[1] /\ k1[2] < k2[2]

\* x put into the sorted list after every element whose key is not greater.
InsertSorted(sorted, x) ==
    LET greater == {i \in DOMAIN sorted : KeyLess(x.key, sorted[i].key)}
        at == IF greater = {} THEN Len(sorted) + 1
              ELSE CHOOSE i \in greater : \A j \in greater : i <= j
    IN  SubSeq(sorted, 1, at - 1) \o <<x>> \o SubSeq(sorted, at, Len(sorted))

RECURSIVE SortFrom(_, _, _)
SortFrom(keyed, i, sorted) ==
    IF i > Len(keyed) THEN sorted
    ELSE SortFrom(keyed, i + 1, InsertSorted(sorted, keyed[i]))

\* list.sort(key=...) on references paired with their keys: stable; raises
\* TypeError when two keys that the sort must compare cannot be compared.
ListSort(keyed) ==
    IF \E i, j \in DOMAIN keyed : KeyLessRaises(keyed[i].key, keyed[j].key)
    THEN [value |-> <<>>, exc |-> TypeErrorLess]
    ELSE LET sorted == SortFrom(keyed, 1, <<>>)
         IN  [value |-> [i \in DOMAIN sorted |-> sorted[i].ref], exc |-> ""]

IsSlide(ref) == MetaText(ref, ref.document_id) # ""
IsLecture(ref) == MetaText(ref, ref.document_id) = "" /\ MetaText(ref, ref.lecture_id) # ""
IsOther(ref) == ~ IsSlide(ref) /\ ~ IsLecture(ref)

\* The references of a bucket paired with their sort keys.
KeyedSlides(refs) == [i \in DOMAIN refs |-> [key |-> extract_sort_key_slide(refs[i]), ref |-> refs[i]]]
KeyedLectures(refs) == [i \in DOMAIN refs |-> [key |-> extract_sort_key_lecture(refs[i]), ref |-> refs[i]]]

\* Variant: chronological mode without the two sorts.
order_chunks_unsorted(references, order_by) ==
    IF order_by = "relevance"
    THEN [value |-> references, exc |-> ""]
    ELSE IF \E i \in DOMAIN references : references[i].metadata = "null"
    THEN [value |-> <<>>, exc |-> AttributeErrorGet]
    ELSE [value |-> SelectSeq(references, IsSlide) \o SelectSeq(references, IsLecture)
                    \o SelectSeq(references, IsOther),
          exc |-> ""]

\* _order_chunks(references, order_by): the ordered list, or the exception.
order_chunks(references, order_by) ==
    IF order_by = "relevance"
    THEN [value |-> references, exc |-> ""]
    ELSE IF \E i \in DOMAIN references : references[i].metadata = "null"
    THEN [value |-> <<>>, exc |-> AttributeErrorGet]
    ELSE LET slides == ListSort(KeyedSlides(SelectSeq(references, IsSlide)))
             lectures == ListSort(KeyedLectures(SelectSeq(references, IsLecture)))
             other == SelectSeq(references, IsOther)
         IN  IF slides.exc # "" THEN slides
             ELSE IF lectures.exc # "" THEN lectures
             ELSE [value |-> slides.value \o lectures.value \o other, exc |-> ""]

\* str.strip() on the contents used here.
Strip(content) ==
    IF content = "   " THEN ""
    ELSE IF content = " early lecture " THEN "early lecture"
    ELSE content

\* One element of `lines`: f"[{i}] ({source_hint}) {content}", with the i,
\* hint and content it was built from.
Line(i, source_hint, content) ==
    [number |-> i, source_hint |-> source_hint, content |-> content,
     text |-> "[" \o ToString(i) \o "] (" \o source_hint \o ") " \o content]

RECURSIVE BuildLines(_, _, _)
\* The loop of _build_model_context from position i on.
BuildLines(ordered_refs, i, lines) ==
    IF i > Len(ordered_refs)
    THEN [value |-> lines, exc |-> ""]
    ELSE LET ref == ordered_refs[i]
             source_hint == get_source_hint(ref)
         IN  IF ref.content = NullText
             THEN [value |-> lines, exc |-> AttributeErrorStrip]
             ELSE IF source_hint.exc # ""
             THEN [value |-> lines, exc |-> source_hint.exc]
             ELSE BuildLines(ordered_refs, i + 1,
                             IF Strip(ref.content) # ""
                             THEN Append(lines, Line(i, source_hint.value, Strip(ref.content)))
                             ELSE lines)

RECURSIVE Join(_, _)
\* sep.join(texts)
Join(sep, texts) ==
    IF texts = <<>> THEN ""
    ELSE IF Len(texts) = 1 THEN texts[1]
    ELSE texts[1] \o sep \o Join(sep, Tail(texts))

\* Variant: the lines numbered by their own position in `lines`.
build_model_context_renumbered(ordered_refs) ==
    LET r == BuildLines(ordered_refs, 1, <<>>)
    IN  [value |-> [i \in DOMAIN r.value |->
                      Line(i, r.value[i].source_hint, r.value[i].content)],
         exc |-> r.exc]

\* _build_model_context(ordered_refs): the lines that are joined.
build_model_context(ordered_refs) == BuildLines(ordered_refs, 1, <<>>)

\* Variant: the references left as they are.
enrich_client_sources_unnumbered(ordered_refs) == ordered_refs

\* _enrich_client_sources(ordered_refs)
enrich_client_sources(ordered_refs) ==
    [i \in DOMAIN ordered_refs |-> [ordered_refs[i] EXCEPT !.chunk_number = i]]

\* _build_chunk_map(ordered_refs)
build_chunk_map(ordered_refs) == [i \in DOMAIN ordered_refs |-> ordered_refs[i]]

\* FormattedContext; lines is the list model_context is joined from.
FormattedContext(lines, client_sources, chunk_map) ==
    [model_context |-> Join("\n\n", [i \in DOMAIN lines |-> lines[i].text]),
     lines |-> lines, client_sources |-> client_sources, chunk_map |-> chunk_map]

\* Lines 172-177: a reference that is no dict becomes {"content": str(ref)}.
Normalized(references) ==
    [i \in DOMAIN references |->
        IF references[i].is_str
        THEN Reference("absent", references[i].content, NoneInt, "", NoneInt, "", NoneInt, "")
        ELSE references[i]]

\* format_retrieval_context(references, order_by=...): the FormattedContext,
\* or the exception raised.
format_retrieval_context(references, order_by) ==
    LET ordered == order_chunks(Normalized(references), order_by)
        lines == build_model_context(ordered.value)
    IN  IF ordered.exc # ""
        THEN [value |-> FormattedContext(<<>>, <<>>, <<>>), exc |-> ordered.exc]
        ELSE IF lines.exc # ""
        THEN [value |-> FormattedContext(<<>>, <<>>, <<>>), exc |-> lines.exc]
        ELSE [value |-> FormattedContext(lines.value,
                                         enrich_client_sources(ordered.value),
                                         build_chunk_map(ordered.value)),
              exc |-> ""]

-----------------------------------------------------------------------------
(* A format_retrieval_context call *)

FirstSlideRef == Reference("map", "first slide", NoneInt, "D1", 1, "", NoneInt, "Deck")
\* A second chunk of the slide of SlideRef: the same sort key.
SameSlideRef == Reference("map", "slide text, again", NoneInt, "D1", 3, "", NoneInt, "Deck")
\* No content and no slide_number key.
OtherDeckRef == Reference("map", "", NoneInt, "D2", NoneInt, "", NoneInt, "")
EarlyLectureRef == Reference("map", " early lecture ", NoneInt, "", NoneInt, "L1", 300, "")
BothIdsRef == Reference("map", "slide of a lecture", NoneInt, "D2", 2, "L2", 100, "")
PlainStringRef == StrReference("plain text")
BlankRef == Reference("absent", "   ", NoneInt, "", NoneInt, "", NoneInt, "")
NullContentRef == Reference("map", NullText, NoneInt, "D1", 2, "", NoneInt, "")
NullSlideNumberRef == Reference("map", "unnumbered slide", NoneInt, "D1", NullInt, "", NoneInt, "")

RefPool ==
    { SlideRef, FirstSlideRef, SameSlideRef, OtherDeckRef, LectureRef,
      EarlyLectureRef, BothIdsRef, PlainStringRef, BlankRef,
      NullMetadataRef, NullContentRef, NullSlideNumberRef }

RefLists == UNION {[1..n -> RefPool] : n \in 0..MaxRefs}

OrderModes == {"relevance", "chronological"}

InitFormatCall ==
    /\ chat = NoChat
    /\ InitMore
    /\ \E references \in RefLists, order_by \in OrderModes :
          fmt = [references |-> references, order_by |-> order_by, pc |-> "call",
                 result |-> [value |-> <<>>, exc |-> ""]]

InitFormat == InitIdle /\ InitStore /\ InitSessions /\ InitFormatCall

\* format_retrieval_context(references, order_by=order_by) returns or raises.
FormatRetrievalContext ==
    /\ fmt.pc = "call"
    /\ LET r == format_retrieval_context(fmt.references, fmt.order_by)
       IN  fmt' = [fmt EXCEPT !.result = r,
                              !.pc = IF r.exc # "" THEN "raised" ELSE "returned"]
    /\ UNCHANGED <<adapterVars, storeVars, peerVars, sessionVars, chatVars, moreVars>>

\* The search tool, which formats in chronological mode (chat_agent.py 269),
\* hands the client sources to the response as a custom event (279-280),
\* which the adapter of the response handles.
SearchToolYields ==
    /\ fmt.pc = "returned"
    /\ fmt.order_by = "chronological"
    /\ fmt.result.value.client_sources # <<>>
    /\ sync.pc = "iterating"
    /\ LET event == CustomEvent(fmt.result.value.client_sources)
       IN  /\ agno_stream' = Append(agno_stream, event)
           /\ sync' = SyncEvent(sync, event)
    /\ fmt' = [fmt EXCEPT !.pc = "emitted"]
    /\ UNCHANGED <<stream_end, pre_retrieved_sources, async, storeVars, peerVars,
                   sessionVars, chatVars, moreVars>>

\* The collected sources are saved under the assistant message of the
\* response (main.py 689-695).
PersistCollected ==
    /\ fmt.pc = "emitted"
    /\ sync.collected_sources # <<>>
    /\ call' = NewCall(call, "m1", "s1", sync.collected_sources)
    /\ db' = {}
    /\ fmt' = [fmt EXCEPT !.pc = "saving"]
    /\ UNCHANGED <<adapterVars, store, saved, peerVars, sessionVars, chatVars, moreVars>>

NextFormat ==
    \/ FormatRetrievalContext
    \/ TransformStreamSyncBegin
    \/ SearchToolYields
    \/ PersistCollected
    \/ SaveMessageSourcesExecute
    \/ SaveMessageSourcesCommit

SpecFormat == InitFormat /\ [][NextFormat]_vars

\* The call has just returned a FormattedContext.
Returned == fmt.pc = "returned"

\* A reference without its chunk_number key.
Unnumbered(ref) == [ref EXCEPT !.chunk_number = NoneInt]

\* How many times ref occurs in refs, chunk_number aside.
Occurrences(refs, ref) ==
    Cardinality({i \in DOMAIN refs : Unnumbered(refs[i]) = Unnumbered(ref)})

-----------------------------------------------------------------------------
(* C16: whenever format_retrieval_context returns, in either mode, the      *)
(* client sources are the input references (a bare string as its dict),     *)
(* each exactly once, with chunk_number 1, 2, ..., n in output order, and    *)
(* the keys of chunk_map are 1..n, n being the number of input references.  *)

C16_NumberedOneToN ==
    Returned =>
        LET f == fmt.result.value
            n == Len(fmt.references)
            normalized == Normalized(fmt.references)
        IN  /\ Len(f.client_sources) = n
            /\ DOMAIN f.chunk_map = 1..n
            /\ \A i \in 1..n : f.client_sources[i].chunk_number = i
            /\ \A i \in 1..n :
                   Occurrences(f.client_sources, normalized[i]) = Occurrences(normalized, normalized[i])

C16_Witness ==
    /\ fmt.pc = "returned"
    /\ fmt.order_by = "chronological"
    /\ fmt.references = <<PlainStringRef, BlankRef, SlideRef>>

-----------------------------------------------------------------------------
(* C17: the number of a model_context line, the chunk_number in             *)
(* client_sources and the key of chunk_map denote the reference at that     *)
(* final position; a reference whose content is blank has no line, the      *)
(* other lines keep their numbers, and it keeps its client_sources and      *)
(* chunk_map entries.                                                       *)

C17_NumbersAgree ==
    Returned =>
        LET f == fmt.result.value
            n == Len(f.client_sources)
        IN  /\ \A i \in 1..n :
                   f.client_sources[i] = [f.chunk_map[i] EXCEPT !.chunk_number = i]
            /\ \A k \in DOMAIN f.lines :
                   LET line == f.lines[k]
                   IN  /\ line.number \in 1..n
                       /\ line.content = Strip(f.chunk_map[line.number].content)
                       /\ line.source_hint = get_source_hint(f.chunk_map[line.number]).value
                       /\ line.text = "[" \o ToString(line.number) \o "] ("
                                       \o line.source_hint \o ") " \o line.content
            /\ \A k, l \in DOMAIN f.lines : k < l => f.lines[k].number < f.lines[l].number
            /\ \A i \in 1..n :
                   Strip(f.chunk_map[i].content) # "" <=>
                       \E k \in DOMAIN f.lines : f.lines[k].number = i

C17_Witness ==
    /\ fmt.pc = "returned"
    /\ Len(fmt.result.value.client_sources) = 3
    /\ \E k \in DOMAIN fmt.result.value.lines : fmt.result.value.lines[k].number > k

-----------------------------------------------------------------------------
(* C18: in chronological mode the output is the slides ascending by         *)
(* (document_id, slide_number), then the lectures ascending by (lecture_id, *)
(* start_seconds), then the other references; references of one bucket      *)
(* with equal keys, and the other references, keep their input order.       *)

BucketRank(ref) == IF IsSlide(ref) THEN 1 ELSE IF IsLecture(ref) THEN 2 ELSE 3

SortKey(ref) ==
    IF IsSlide(ref) THEN extract_sort_key_slide(ref)
    ELSE IF IsLecture(ref) THEN extract_sort_key_lecture(ref)
    ELSE <<"", 0>>

\* The references of refs that are in the bucket of ref with its sort key.
SameClass(refs, ref) ==
    LET Same(r) == BucketRank(r) = BucketRank(ref) /\ SortKey(r) = SortKey(ref)
    IN  SelectSeq(refs, Same)

C18_ChronologicalOrder ==
    Returned /\ fmt.order_by = "chronological" =>
        LET ordered == fmt.result.value.chunk_map
            n == Len(fmt.references)
            normalized == Normalized(fmt.references)
        IN  /\ Len(ordered) = n
            /\ \A i, j \in 1..n : i < j =>
                  /\ BucketRank(ordered[i]) <= BucketRank(ordered[j])
                  /\ BucketRank(ordered[i]) = BucketRank(ordered[j]) =>
                        ~ KeyLess(SortKey(ordered[j]), SortKey(ordered[i]))
            /\ \A i \in 1..n :
                  SameClass(ordered, normalized[i]) = SameClass(normalized, normalized[i])

C18_Witness ==
    /\ fmt.pc = "returned"
    /\ fmt.order_by = "chronological"
    /\ fmt.references = <<SameSlideRef, SlideRef, FirstSlideRef>>
    /\ fmt.result.value.chunk_map = <<FirstSlideRef, SameSlideRef, SlideRef>>

-----------------------------------------------------------------------------
(* C19: format_retrieval_context never raises, whatever the references.     *)

C19_NeverRaises == fmt.pc # "raised"

-----------------------------------------------------------------------------
(* C20: the chunk_number format_retrieval_context gave a reference is the   *)
(* chunk_number of the source extracted from it, of the row inserted for    *)
(* that source and of the dict load_sources_for_messages returns for that   *)
(* row; a row is inserted for the first source of each source_id.           *)

\* The client sources the search tool emitted.
Emitted == fmt.result.value.client_sources

\* The positions of the sources that get a row: the first of each source_id.
FirstOfSourceId(sources) ==
    {i \in DOMAIN sources : \A j \in 1..(i - 1) : sources[j].source_id # sources[i].source_id}

-----------------------------------------------------------------------------
(* Repeated source extraction (extract_sources_from_references) *)

MaxExtractRefs == 2     \* references given to one extraction call

\* A chunk that starts in the second in which LectureRef starts.
SameSecondRef == Reference("map", "lecture text, later", NoneInt, "", NoneInt, "L1", 909, "")
\* A lecture chunk without a start_seconds key, and one that starts within
\* the first second of that lecture.
UntimedLectureRef == Reference("map", "untimed lecture", NoneInt, "", NoneInt, "L2", NoneInt, "")
FirstSecondRef == Reference("map", "opening words", NoneInt, "", NoneInt, "L2", 5, "")

ExtractPool ==
    { SlideRef, SameSlideRef, FirstSlideRef, OtherDeckRef, NullSlideNumberRef,
      LectureRef, SameSecondRef, EarlyLectureRef, UntimedLectureRef, FirstSecondRef,
      BothIdsRef, PlainStringRef, BlankRef }

\* A fresh adapter (its message id took the first uuid) is about to extract.
InitExtractCall ==
    /\ chat = NoChat
    /\ fmt = NoFormat
    /\ adapters = <<>>
    /\ responses = <<>>
    /\ loaded = NoLoad
    /\ history = EarlierHistory
    /\ \E references \in UNION {[1..n -> ExtractPool] : n \in 0..MaxExtractRefs} :
          ext = [references |-> references, pc |-> "call", uuids |-> 1, results |-> <<>>]

InitExtract == InitIdle /\ InitStore /\ InitSessions /\ InitExtractCall

\* adapter.extract_sources_from_references(references), for the first and
\* for the second time.
ExtractSourcesCall ==
    /\ ext.pc \in {"call", "once"}
    /\ LET r == extract_sources_from_references(ext.references, ext.uuids)
       IN  ext' = [ext EXCEPT !.results = Append(@, r),
                              !.uuids = r.uuids,
                              !.pc = IF ext.pc = "call" THEN "once" ELSE "twice"]
    /\ UNCHANGED <<adapterVars, storeVars, peerVars, sessionVars, chatVars, formatVars,
                   responseVars, loadVars>>

NextExtract == ExtractSourcesCall

SpecExtract == InitExtract /\ [][NextExtract]_vars

\* (document_id, slide_number|0) and (lecture_id, floor(start_seconds|0)) of
\* a reference, start_seconds being in tenths of a second.
SlideKey(ref) == <<ref.document_id, IF ref.slide_number = NoneInt THEN 0 ELSE ref.slide_number>>
LectureKey(ref) == <<ref.lecture_id, IF ref.start_seconds = NoneInt THEN 0 ELSE ref.start_seconds \div 10>>

\* The sources of both extractions, each with the reference it came from.
Extracted ==
    LET n == Len(ext.references)
    IN  [k \in 1..(2 * n) |->
            [source |-> ext.results[((k - 1) \div n) + 1].value[((k - 1) % n) + 1],
             ref |-> ext.references[((k - 1) % n) + 1]]]

-----------------------------------------------------------------------------
(* C21: two extractions of the same references give every slide and every   *)
(* lecture reference the same source_id both times; two slide sources have  *)
(* one source_id exactly when their references agree on (document_id,       *)
(* slide_number), two lecture sources exactly when their references agree   *)
(* on (lecture_id, floor(start_seconds)), an absent number counting as 0; a *)
(* slide and a lecture never share a source_id; and every unknown source    *)
(* has a source_id no other extracted source has.                           *)

C21_SourceIdDeterministic ==
    ext.pc = "twice" =>
        LET e == Extracted
        IN  \A i, j \in DOMAIN e : i # j =>
                LET a == e[i].source
                    b == e[j].source
                IN  /\ a.source_type = "slide" /\ b.source_type = "slide" =>
                          (a.source_id = b.source_id <=> SlideKey(e[i].ref) = SlideKey(e[j].ref))
                    /\ a.source_type = "lecture" /\ b.source_type = "lecture" =>
                          (a.source_id = b.source_id <=> LectureKey(e[i].ref) = LectureKey(e[j].ref))
                    /\ a.source_type # b.source_type => a.source_id # b.source_id
                    /\ a.source_type = "unknown" => a.source_id # b.source_id

C21_Witness ==
    /\ ext.pc = "twice"
    /\ ext.references = <<LectureRef, SameSecondRef>>
    /\ ext.results[1].value[1].source_id = "lecture-L1-90"
    /\ ext.results[2].value[2].source_id = "lecture-L1-90"

-----------------------------------------------------------------------------
(* Loading the sources of messages (load_sources_for_messages) *)

MaxLoads == 1           \* load_sources_for_messages calls per behaviour
MaxLoadCalls == 2       \* save_message_sources calls beside the loads

\* The message ids asked for: those of the saved messages and one of a
\* message without sources.
LoadIds == MessageIds \cup {"m3"}

\* load_sources_for_messages(db, message_ids) on the committed rows.
LoadSourcesForMessages ==
    /\ loaded.n < MaxLoads
    /\ \E message_ids \in SUBSET LoadIds :
          \E result \in load_sources_for_messages(store, message_ids) :
             loaded' = [message_ids |-> message_ids, rows |-> store,
                        result |-> result, n |-> loaded.n + 1]
    /\ UNCHANGED <<adapterVars, storeVars, peerVars, sessionVars, chatVars, formatVars,
                   extractVars, responseVars, history>>

NextLoad ==
    \/ call.n < MaxLoadCalls /\ SaveMessageSourcesCallFor(SessionMessages)
    \/ SaveMessageSourcesExecute
    \/ SaveMessageSourcesCommit
    \/ LoadSourcesForMessages

SpecLoad == InitSave /\ [][NextLoad]_vars

-----------------------------------------------------------------------------
(* C22: the result of load_sources_for_messages has one group for every     *)
(* message id asked for that has stored rows and no other group; the group  *)
(* of a message id holds the source of each of its stored rows exactly once *)
(* and nothing else, in ascending chunk_number order; with no message ids   *)
(* asked for the result is empty.                                           *)

C22_LoadGroupsAndOrder ==
    loaded.n > 0 =>
        LET result == loaded.result
            RowsFor(message_id) == {r \in loaded.rows : r.message_id = message_id}
        IN  /\ loaded.message_ids = {} => result = <<>>
            /\ DOMAIN result = {id \in loaded.message_ids : RowsFor(id) # {}}
            /\ \A id \in DOMAIN result :
                  /\ Len(result[id]) = Cardinality(RowsFor(id))
                  /\ \A r \in RowsFor(id) :
                        \E k \in DOMAIN result[id] : result[id][k] = SourceDict(r)
                  /\ \A k \in 1..(Len(result[id]) - 1) :
                        result[id][k].chunk_number <= result[id][k + 1].chunk_number

C22_Witness ==
    /\ loaded.message_ids = {"m1", "m3"}
    /\ Cardinality({r \in loaded.rows : r.message_id = "m1"}) = 2
    /\ \E r \in loaded.rows : r.message_id = "m2"
    /\ DOMAIN loaded.result = {"m1"}
    /\ loaded.result["m1"][1].chunk_number < loaded.result["m1"][2].chunk_number

-----------------------------------------------------------------------------
(* Chat responses streamed side by side (main.py, chat_stream) *)

MaxResponseEvents == 2  \* upstream events of each of the responses

\* The requests being served at the same time.
Requests == {"r1", "r2"}

ResponseEvents ==
    { RunContentEvent(<<>>, "", "Hello"),
      RunContentEvent(<<MessageReferences("attr", <<SlideRef>>)>>, "think", "cited"),
      RunCompletedEvent("run-1", <<MessageReferences("attr", <<LectureRef>>)>>, "final"),
      ReasoningStartedEvent }

\* Variant: one adapter, constructed for the first response, serves them all.
SharedAdapter(instances) ==
    IF instances = <<>> THEN <<AgnoVercelAdapter(TRUE)>> ELSE instances

\* main.py 640, adapter = AgnoVercelAdapter(): the instances after the
\* construction; the new one is the last.
ConstructAdapter(instances) == Append(instances, AgnoVercelAdapter(TRUE))

\* generate_stream of a request is started: it constructs its adapter and the
\* first frames of adapter.transform_stream_sync(stream) are pulled.
ResponseBegin ==
    /\ Len(responses) < Cardinality(Requests)
    /\ LET constructed == ConstructAdapter(adapters)
           adapter == Len(constructed)
       IN  /\ adapters' = [constructed EXCEPT ![adapter] = SyncBegin(@, <<>>)]
           /\ responses' = Append(responses, [adapter |-> adapter, events |-> <<>>,
                                              end |-> "open"])
    /\ UNCHANGED <<adapterVars, storeVars, peerVars, sessionVars, chatVars, formatVars,
                   extractVars, loadVars>>

\* The upstream of response r delivers an event and its adapter handles it.
ResponseEvent(r) ==
    LET adapter == responses[r].adapter
    IN  /\ adapters[adapter].pc = "iterating"
        /\ responses[r].end = "open"
        /\ Len(responses[r].events) < MaxResponseEvents
        /\ \E event \in ResponseEvents :
              /\ adapters' = [adapters EXCEPT ![adapter] = SyncEvent(@, event)]
              /\ responses' = [responses EXCEPT ![r].events = Append(@, event)]
        /\ UNCHANGED <<adapterVars, storeVars, peerVars, sessionVars, chatVars, formatVars,
                       extractVars, loadVars>>

\* The upstream of response r is exhausted.
ResponseExhausted(r) ==
    LET adapter == responses[r].adapter
    IN  /\ adapters[adapter].pc = "iterating"
        /\ responses[r].end = "open"
        /\ adapters' = [adapters EXCEPT ![adapter] = SyncExhausted(@)]
        /\ responses' = [responses EXCEPT ![r].end = "exhausted"]
        /\ UNCHANGED <<adapterVars, storeVars, peerVars, sessionVars, chatVars, formatVars,
                       extractVars, loadVars>>

\* The upstream of response r raises.
ResponseRaised(r) ==
    LET adapter == responses[r].adapter
    IN  /\ adapters[adapter].pc = "iterating"
        /\ responses[r].end = "open"
        /\ adapters' = [adapters EXCEPT ![adapter] = SyncRaised(@, UpstreamError)]
        /\ responses' = [responses EXCEPT ![r].end = "raised"]
        /\ UNCHANGED <<adapterVars, storeVars, peerVars, sessionVars, chatVars, formatVars,
                       extractVars, loadVars>>

NextResponses ==
    \/ ResponseBegin
    \/ \E r \in DOMAIN responses : ResponseEvent(r)
    \/ \E r \in DOMAIN responses : ResponseExhausted(r)
    \/ \E r \in DOMAIN responses : ResponseRaised(r)

SpecResponses == InitSave /\ [][NextResponses]_vars

RECURSIVE HandleAll(_, _, _)
\* The adapter a after the events from position i on.
HandleAll(a, events, i) ==
    IF i > Len(events) \/ a.pc # "iterating" THEN a
    ELSE HandleAll(SyncEvent(a, events[i]), events, i + 1)

\* The adapter of a response that is served alone: a fresh adapter that
\* handled the events and the end of the stream.
RunAlone(events, end) ==
    LET a == HandleAll(SyncBegin(AgnoVercelAdapter(TRUE), <<>>), events, 1)
    IN  IF a.pc # "iterating" \/ end = "open" THEN a
        ELSE IF end = "exhausted" THEN SyncExhausted(a)
        ELSE SyncRaised(a, UpstreamError)

-----------------------------------------------------------------------------
(* C23: two responses streamed at the same time have two adapters, and      *)
(* however their upstream events interleave, the adapter of each - its      *)
(* block flags, sources_emitted, collected sources, run id and the frames   *)
(* it yielded - is the adapter the response would have if served alone.     *)

C23_ResponsesIsolated ==
    /\ \A r, q \in DOMAIN responses : r # q => responses[r].adapter # responses[q].adapter
    /\ \A r \in DOMAIN responses :
          adapters[responses[r].adapter] = RunAlone(responses[r].events, responses[r].end)

C23_Witness ==
    /\ Len(responses) = 2
    /\ responses[1].end = "exhausted"
    /\ responses[2].end = "open"
    /\ Len(responses[1].events) = 2 /\ Len(responses[2].events) = 1
    /\ adapters[responses[1].adapter].sources_emitted
    /\ adapters[responses[1].adapter].text_started
    /\ ~ adapters[responses[2].adapter].sources_emitted
    /\ adapters[responses[2].adapter].reasoning_started

-----------------------------------------------------------------------------
(* C24: with pre-retrieved sources and the before-text policy enabled, once *)
(* the run has begun the frames after start are one source-document and one *)
(* data-rag-source frame per pre-retrieved source, in list order, ahead of  *)
(* every frame of an upstream event, and sources_emitted is true from then  *)
(* on, so also when the first upstream event is handled.                    *)

\* The frames of the sources, in order: source-document then data-rag-source.
SourceFrames(a, sources) ==
    [k \in 1..(2 * Len(sources)) |->
        IF k % 2 = 1
        THEN emit_source_document(a, sources[(k + 1) \div 2]).frames[Len(a.frames) + 1]
        ELSE emit_rag_source(a, sources[k \div 2]).frames[Len(a.frames) + 1]]

PreRetrievedFirst(a) ==
    pre_retrieved_sources # <<>> /\ a.emit_sources_before_text /\ a.pc # "fresh" =>
        LET n == Len(pre_retrieved_sources)
        IN  /\ Len(a.frames) >= 1 + 2 * n
            /\ a.frames[1].type = "start"
            /\ SubSeq(a.frames, 2, 1 + 2 * n) = SourceFrames(a, pre_retrieved_sources)
            /\ a.sources_emitted

-----------------------------------------------------------------------------
(* C25: when the event stream is exhausted, the frames added are: text-end  *)
(* with the id of the text block if a text block is open, then              *)
(* reasoning-end with the id of the reasoning block if a reasoning block is *)
(* open, then finish, then done - and nothing else, so no end frame for a   *)
(* block that was never opened or is already closed.                        *)

\* A block is open when its start frames outnumber its end frames.
BlockOpen(frames, start, end) == Count(frames, {start}) > Count(frames, {end})

\* The id of the start frame that opened the block last.
LastId(frames, start) ==
    LET at == Positions(frames, {start})
    IN  frames[CHOOSE i \in at : \A j \in at : j <= i].id

ClosingFrames(frames) ==
    (IF BlockOpen(frames, "text-start", "text-end")
     THEN <<Frame("text-end", LastId(frames, "text-start"), "", "", NoData)>> ELSE <<>>)
    \o (IF BlockOpen(frames, "reasoning-start", "reasoning-end")
        THEN <<Frame("reasoning-end", LastId(frames, "reasoning-start"), "", "", NoData)>>
        ELSE <<>>)
    \o <<Frame("finish", "", "", "", NoData), Frame("done", "", "", "", NoData)>>

C25_ExhaustionClosesBlocks ==
    [][ stream_end = "open" /\ stream_end' = "exhausted" =>
            sync'.frames = sync.frames \o ClosingFrames(sync.frames) ]_vars

C25_Witness ==
    /\ stream_end = "exhausted"
    /\ Len(sync.frames) >= 4
    /\ Types(SubSeq(sync.frames, Len(sync.frames) - 3, Len(sync.frames)))
          = <<"text-end", "reasoning-end", "finish", "done">>
    /\ Count(sync.frames, {"reasoning-end"}) = 2

-----------------------------------------------------------------------------
(* C26: frames are only ever added at the end of what was yielded before,   *)
(* the first frame is start and it precedes the frames of every event, so   *)
(* the frames of an event precede those of every later event; and among the *)
(* frames one content-delta event adds, source frames come before reasoning *)
(* frames and reasoning frames before text frames.                          *)

\* Where a frame of a content-delta event belongs.
FrameRank(frame) ==
    CASE frame.type \in SourceTypes -> 1
      [] frame.type \in {"reasoning-start", "reasoning-delta"} -> 2
      [] frame.type \in {"text-start", "text-delta"} -> 3
      [] OTHER -> 4

\* The frames the step added.
AddedFrames == SubSeq(sync'.frames, Len(sync.frames) + 1, Len(sync'.frames))

C26_FramesInEventOrder ==
    [][ /\ Len(sync'.frames) >= Len(sync.frames)
        /\ SubSeq(sync'.frames, 1, Len(sync.frames)) = sync.frames
        /\ sync'.frames # <<>> => sync'.frames[1].type = "start"
        /\ sync'.pos # sync.pos =>
              /\ sync.frames # <<>>
              /\ sync'.pos = sync.pos + 1
              /\ agno_stream'[sync'.pos].kind = "RunContent" =>
                    \A i, j \in DOMAIN AddedFrames :
                        i < j => FrameRank(AddedFrames[i]) <= FrameRank(AddedFrames[j]) ]_vars

C26_Witness ==
    /\ Len(agno_stream) = 2
    /\ sync.pos = 2
    /\ agno_stream[2].kind = "RunContent"
    /\ Types(sync.frames) = <<"start", "reasoning-start", "source-document", "data-rag-source",
                              "reasoning-delta", "text-start", "text-delta">>

-----------------------------------------------------------------------------
(* C27: the step that handles a run-completed event captures the run id of  *)
(* the event; adds source frames exactly when the event carries references  *)
(* and no source frame was yielded before; and adds text-start and one      *)
(* text-delta with the event's content exactly when the event has content   *)
(* and no text-start was yielded before - otherwise it adds no text frame.  *)

TextTypes == {"text-start", "text-delta", "text-end"}

C27_RunCompleted ==
    [][ sync'.pos = sync.pos + 1 /\ agno_stream'[sync'.pos].kind = "RunCompleted" =>
            LET event == agno_stream'[sync'.pos]
                IsText(frame) == frame.type \in TextTypes
                text == SelectSeq(AddedFrames, IsText)
            IN  /\ event.run_id # "" => sync'.agno_run_id = event.run_id
                /\ Count(AddedFrames, SourceTypes) > 0
                      <=> (event.references # <<>> /\ Count(sync.frames, SourceTypes) = 0)
                /\ IF event.content # "" /\ Count(sync.frames, {"text-start"}) = 0
                   THEN /\ Types(text) = <<"text-start", "text-delta">>
                        /\ text[2].text = event.content
                        /\ text[2].id = text[1].id
                   ELSE text = <<>> ]_vars

C27_Witness ==
    /\ Len(agno_stream) = 2
    /\ sync.pos = 2
    /\ agno_stream[2].kind = "RunCompleted"
    /\ sync.agno_run_id = "run-1"
    /\ Types(sync.frames) = <<"start", "text-start", "text-delta", "source-document",
                              "data-rag-source">>

-----------------------------------------------------------------------------
(* C28: with the before-text policy disabled, no frame of the run is the    *)
(* source-document or data-rag-source frame of a pre-retrieved source, no   *)
(* pre-retrieved source is in collected_sources, whatever events were       *)
(* handled, and after the start frame - before the first event -            *)
(* sources_emitted is false and start is the only frame; under              *)
(* transform_stream_sync and under transform_stream.                        *)

PreRetrievedSet == {pre_retrieved_sources[i] : i \in DOMAIN pre_retrieved_sources}

\* The pre-retrieved sources left no trace in the run of adapter a.
PreRetrievedDropped(a) ==
    ~ a.emit_sources_before_text /\ pre_retrieved_sources # <<>> =>
        /\ \A i \in DOMAIN a.frames :
              /\ a.frames[i].type = "source-document" =>
                    a.frames[i].id \notin {s.source_id : s \in PreRetrievedSet}
              /\ a.frames[i].type = "data-rag-source" =>
                    a.frames[i].data.source \notin PreRetrievedSet
        /\ \A i \in DOMAIN a.collected_sources :
              a.collected_sources[i] \notin PreRetrievedSet
        /\ a.pc = "iterating" /\ a.pos = 0 =>
              /\ ~ a.sources_emitted
              /\ Types(a.frames) = <<"start">>

C28_PolicyDisabledDropsPreRetrieved == PreRetrievedDropped(sync) /\ PreRetrievedDropped(async)

C28_Witness ==
    /\ ~ sync.emit_sources_before_text
    /\ Len(pre_retrieved_sources) = 2
    /\ stream_end = "exhausted"
    /\ Len(agno_stream) = 2
    /\ Closed(async)
    /\ Len(async.collected_sources) = 2
    /\ async.sources_emitted

-----------------------------------------------------------------------------
(* C29: once the event stream is exhausted, collected_sources is the list   *)
(* of the sources of the data-rag-source frames yielded, in the order of    *)
(* the frames, and the source-document frames name the same sources in the  *)
(* same order.                                                              *)

\* The frames of the given type, in order.
FramesOfType(frames, type) ==
    LET Is(frame) == frame.type = type
    IN  SelectSeq(frames, Is)

C29_CollectedAreEmitted ==
    stream_end = "exhausted" =>
        LET rag == FramesOfType(sync.frames, "data-rag-source")
            doc == FramesOfType(sync.frames, "source-document")
        IN  /\ [i \in DOMAIN rag |-> rag[i].data.source] = sync.collected_sources
            /\ [i \in DOMAIN doc |-> doc[i].id]
                  = [i \in DOMAIN sync.collected_sources |-> sync.collected_sources[i].source_id]

C29_Witness ==
    /\ stream_end = "exhausted"
    /\ pre_retrieved_sources # <<>>
    /\ Len(sync.collected_sources) = 3
    /\ sync.collected_sources[1] = pre_retrieved_sources[1]
    /\ sync.collected_sources[3].source_type = "lecture"

-----------------------------------------------------------------------------
(* C30: the step that handles a tool-call-completed event adds exactly      *)
(* tool-input-available and then tool-output-available, both with the       *)
(* event's tool call id (a generated one when it has none); the step that   *)
(* handles a tool-call-started event adds exactly one tool-input-start      *)
(* frame, with the event's id and name, or a generated id and the name      *)
(* unknown_tool when the event has none.                                    *)

\* The ids of the frames yielded so far and of the message.
IdsInUse == {sync.frames[i].id : i \in DOMAIN sync.frames} \cup {sync.message_id, ""}

\* id is the tool call id of the event, or a generated one.
ToolCallIdOf(event, id) ==
    IF event.tool.tool_call_id # "" THEN id = event.tool.tool_call_id
    ELSE id \notin IdsInUse

ToolNameOf(event) ==
    IF event.tool.tool_name # "" THEN event.tool.tool_name ELSE "unknown_tool"

C30_ToolFrames ==
    [][ sync'.pos = sync.pos + 1 =>
            LET event == agno_stream'[sync'.pos]
            IN  /\ event.kind = "ToolCallCompleted" =>
                      /\ Types(AddedFrames) = <<"tool-input-available", "tool-output-available">>
                      /\ AddedFrames[1].id = AddedFrames[2].id
                      /\ ToolCallIdOf(event, AddedFrames[1].id)
                      /\ AddedFrames[1].text = ToolNameOf(event)
                      /\ AddedFrames[2].arg = event.tool.result
                /\ event.kind = "ToolCallStarted" =>
                      /\ Types(AddedFrames) = <<"tool-input-start">>
                      /\ ToolCallIdOf(event, AddedFrames[1].id)
                      /\ AddedFrames[1].text = ToolNameOf(event) ]_vars

\* The same frames, asked only of the tool-call events that carry a tool:
\* this holds, so the events without one are the only exception.
ToolFramesOfToolEvents ==
    [][ sync'.pos = sync.pos + 1 /\ agno_stream'[sync'.pos].tool.present =>
            LET event == agno_stream'[sync'.pos]
            IN  /\ event.kind = "ToolCallCompleted" =>
                      /\ Types(AddedFrames) = <<"tool-input-available", "tool-output-available">>
                      /\ AddedFrames[1].id = AddedFrames[2].id
                      /\ ToolCallIdOf(event, AddedFrames[1].id)
                      /\ AddedFrames[1].text = ToolNameOf(event)
                      /\ AddedFrames[2].arg = event.tool.result
                /\ event.kind = "ToolCallStarted" =>
                      /\ Types(AddedFrames) = <<"tool-input-start">>
                      /\ ToolCallIdOf(event, AddedFrames[1].id)
                      /\ AddedFrames[1].text = ToolNameOf(event) ]_vars

-----------------------------------------------------------------------------
(* The same references given to the formatter and to the extractor *)

MaxClassifyRefs == 2    \* references given to both

\* A reference whose metadata names neither a document nor a lecture.
NoIdsRef == Reference("map", "no ids", NoneInt, "", NoneInt, "", NoneInt, "")

ClassifyPool ==
    { SlideRef, OtherDeckRef, LectureRef, UntimedLectureRef, BothIdsRef,
      NoIdsRef, BlankRef, PlainStringRef, NullMetadataRef }

\* format_retrieval_context and extract_sources_from_references (on a fresh
\* adapter) are about to be called with the same references.
InitClassifyCall ==
    /\ chat = NoChat
    /\ adapters = <<>>
    /\ responses = <<>>
    /\ loaded = NoLoad
    /\ history = EarlierHistory
    /\ \E references \in UNION {[1..n -> ClassifyPool] : n \in 0..MaxClassifyRefs},
          order_by \in OrderModes :
          /\ fmt = [references |-> references, order_by |-> order_by, pc |-> "call",
                    result |-> [value |-> <<>>, exc |-> ""]]
          /\ ext = [references |-> references, pc |-> "call", uuids |-> 1,
                    results |-> <<>>]

InitClassify == InitIdle /\ InitStore /\ InitSessions /\ InitClassifyCall

NextClassify ==
    \/ FormatRetrievalContext
    \/ ExtractSourcesCall

SpecClassify == InitClassify /\ [][NextClassify]_vars

\* The class of a reference by the precedence document id, lecture id.
ClassOf(ref) ==
    IF ref.metadata = "map" /\ ref.document_id # "" THEN "slide"
    ELSE IF ref.metadata = "map" /\ ref.lecture_id # "" THEN "lecture"
    ELSE "unknown"

\* The class a source hint speaks of.
HintClass(hint) ==
    IF Len(hint) >= 6 /\ SubSeq(hint, 1, 6) = "Slide " THEN "slide"
    ELSE IF Len(hint) >= 9 /\ SubSeq(hint, 1, 9) = "Lecture @" THEN "lecture"
    ELSE "unknown"

\* The place of a class in the chronological order of the formatter.
ClassRank(class) ==
    CASE class = "slide" -> 1 [] class = "lecture" -> 2 [] OTHER -> 3

-----------------------------------------------------------------------------
(* C31: the formatter and the extractor classify a reference alike, by the  *)
(* precedence document id -> slide, else lecture id -> lecture, else        *)
(* unknown: the extracted source_type is that class, the hint of every      *)
(* model_context line speaks of that class, and in chronological mode the   *)
(* slides come before the lectures and these before the rest; a reference   *)
(* with both ids is a slide in all three; a bare string is extracted as     *)
(* unknown with its 1-based position as chunk_number.                       *)

C31_SamePrecedence ==
    /\ ext.pc # "call" /\ ext.results[1].exc = "" =>
          \A i \in DOMAIN ext.references :
              LET ref == ext.references[i]
                  source == ext.results[1].value[i]
              IN  /\ source.source_type = ClassOf(ref)
                  /\ ref.is_str => source.source_type = "unknown" /\ source.chunk_number = i
    /\ Returned =>
          LET f == fmt.result.value
          IN  /\ \A k \in DOMAIN f.lines :
                     HintClass(f.lines[k].source_hint) = ClassOf(f.chunk_map[f.lines[k].number])
              /\ fmt.order_by = "chronological" =>
                     \A i, j \in DOMAIN f.client_sources :
                         i < j => ClassRank(ClassOf(f.client_sources[i]))
                                      <= ClassRank(ClassOf(f.client_sources[j]))

C31_Witness ==
    /\ ext.pc = "twice"
    /\ fmt.pc = "returned"
    /\ fmt.order_by = "chronological"
    /\ fmt.references = <<PlainStringRef, BothIdsRef>>
    /\ ext.results[1].value[2].source_type = "slide"
    /\ fmt.result.value.lines[1].source_hint = "Slide 2"
    /\ fmt.result.value.client_sources[1].document_id = "D2"

-----------------------------------------------------------------------------
(* C32: every text-delta frame comes after a text-start and before any      *)
(* text-end and carries the id of that text-start; every reasoning-delta    *)
(* frame comes while a reasoning block is open and carries the id of the    *)
(* most recent reasoning-start; no delta carries a null id or the id of a   *)
(* block that was closed before it.                                         *)

\* The last position before i whose frame has one of the types, 0 if none.
LastBefore(frames, i, types) ==
    LET before == {j \in 1..(i - 1) : frames[j].type \in types}
    IN  IF before = {} THEN 0 ELSE CHOOSE j \in before : \A k \in before : k <= j

DeltaInOpenBlock(frames, i, start, end) ==
    LET j == LastBefore(frames, i, {start, end})
    IN  /\ j > 0
        /\ frames[j].type = start
        /\ frames[i].id = frames[j].id
        /\ frames[i].id # ""
        /\ \A k \in 1..(i - 1) : frames[k].type = end => frames[k].id # frames[i].id

C32_DeltasInOpenBlocks ==
    \A i \in DOMAIN sync.frames :
        /\ sync.frames[i].type = "text-delta" =>
              /\ DeltaInOpenBlock(sync.frames, i, "text-start", "text-end")
              /\ LastBefore(sync.frames, i, {"text-end"}) = 0
        /\ sync.frames[i].type = "reasoning-delta" =>
              DeltaInOpenBlock(sync.frames, i, "reasoning-start", "reasoning-end")

C32_Witness ==
    /\ Count(sync.frames, {"text-delta"}) > 0
    /\ \E k, i \in DOMAIN sync.frames :
          /\ k < i
          /\ sync.frames[k].type = "reasoning-end"
          /\ sync.frames[i].type = "reasoning-delta"

-----------------------------------------------------------------------------
(* A response in which the search tool is called several times *)

MaxSearches == 2        \* search_course_materials calls of one run
MaxSearchRefs == 2      \* references retrieve_documents returns to one call

SearchPool == { SlideRef, FirstSlideRef, LectureRef, PlainStringRef }

\* search_course_materials(query): retrieve_documents has returned
\* raw_references, not empty (chat_agent.py 243-264), and they are about to
\* be formatted in chronological mode (line 269).
SearchToolCalled ==
    /\ sync.pc = "iterating"
    /\ fmt.pc \in {"none", "emitted"}
    /\ Len(agno_stream) < MaxSearches
    /\ \E raw_references \in UNION {[1..n -> SearchPool] : n \in 1..MaxSearchRefs} :
          fmt' = [references |-> raw_references, order_by |-> "chronological",
                  pc |-> "call", result |-> [value |-> <<>>, exc |-> ""]]
    /\ UNCHANGED <<adapterVars, storeVars, peerVars, sessionVars, chatVars, moreVars>>

InitSearch == InitIdle /\ InitStore /\ InitSessions /\ InitChat

NextSearch ==
    \/ TransformStreamSyncBegin
    \/ SearchToolCalled
    \/ FormatRetrievalContext
    \/ SearchToolYields
    \/ PersistCollected
    \/ SaveMessageSourcesExecute
    \/ SaveMessageSourcesCommit

SpecSearch == InitSearch /\ [][NextSearch]_vars

-----------------------------------------------------------------------------
(* C33: the sources persisted for one message have pairwise distinct        *)
(* chunk_numbers, also when the search tool fired more than once in the     *)
(* run.                                                                     *)

C33_DistinctChunkNumbers ==
    \A r1, r2 \in store :
        r1.message_id = r2.message_id /\ r1 # r2 => r1.chunk_number # r2.chunk_number


-----------------------------------------------------------------------------
(* delete_session beside the finally block of a response of the same         *)
(* conversation (main.py 673-698 and 873-880)                                *)

MaxRaceDeletes == 1 \* delete_session requests beside the response

\* Line 682: agent.get_session reads the conversation store.  Without the
\* record there is no session to look the run up in; with it the look-up
\* ends in any other way.
LookupOutcomesIn(records, session_id) ==
    IF \E x \in records : x.session_id = session_id
    THEN LookupOutcomes \ {"no_session"}
    ELSE {"raised", "no_session"}

\* The finally block reading the conversation store of the delete requests.
ChatFinallyLookup ==
    /\ ChatFinallyGiven(LookupOutcomesIn(sessions, chat.session_id))

\* Requests to delete a conversation beside the response.
RaceDeleteRequest ==
    /\ del.n < MaxRaceDeletes
    /\ DeleteSessionRequest

NextRace ==
    \/ ChatSetup
    \/ ChatExceptDone
    \/ ChatStreamEvent
    \/ ChatStreamExhausted
    \/ ChatStreamRaised
    \/ ConsumerStops
    \/ ChatStreamOver
    \/ ChatFinallyLookup
    \/ SaveMessageSourcesExecute
    \/ SaveMessageSourcesCommit
    \/ ChatSaveRaises
    \/ ChatPersistOver
    \/ ChatTitle
    \/ RaceDeleteRequest
    \/ DeleteSessionVerify
    \/ DeleteSourcesExecute
    \/ DeleteSourcesCommit
    \/ DeleteSessionRecord

SpecRace == InitSave /\ [][NextRace]_vars

\* C34: once a delete_session request of a conversation has answered 204 and
\* the finally block of a response of that conversation, which had not begun
\* when the request arrived or began during it, is past its save, the store
\* holds no source row of the conversation.
C34_NoRowAfterBoth ==
    (/\ del.pc = "done"
     /\ del.status_code = 204
     /\ chat.session_id = del.session_id
     /\ chat.pc \in {"title", "closed"})
        => \A row \in store : row.session_id # del.session_id


-----------------------------------------------------------------------------
(* The tool calls of a run: the upstream reports each call by a started     *)
(* event and, after the tool has run, by a completed event of the same tool *)
(* execution (vercel_stream.py 401-424)                                      *)

MaxToolCalls == 3   \* tool calls of a run

\* Tool executions as the upstream reports them when a call starts: with or
\* without a call id and a name, and not yet with a result.
ToolPool ==
    { Tool("call-1", "search_course_materials", "query", ""),
      Tool("", "search_course_materials", "query", ""),
      Tool("call-2", "", "", ""),
      Tool("", "", "", "") }

StartedEventsOf(stream) == SelectSeq(stream, LAMBDA e : e.kind = "ToolCallStarted")
CompletedEventsOf(stream) == SelectSeq(stream, LAMBDA e : e.kind = "ToolCallCompleted")

\* A call has started and has not completed.
ToolCallOpen ==
    Len(StartedEventsOf(agno_stream)) > Len(CompletedEventsOf(agno_stream))

\* The upstream reports the start of a tool call and the loop body handles
\* the event.
ToolCallStarts ==
    /\ sync.pc = "iterating"
    /\ stream_end = "open"
    /\ ~ ToolCallOpen
    /\ Len(StartedEventsOf(agno_stream)) < MaxToolCalls
    /\ \E tool \in ToolPool :
          LET event == ToolCallStartedEvent(tool)
          IN  /\ agno_stream' = Append(agno_stream, event)
              /\ sync' = SyncEvent(sync, event)
    /\ UNCHANGED <<stream_end, pre_retrieved_sources, async, storeVars, restVars>>

\* The tool has run: the upstream reports the same tool execution, now with
\* its result, and the loop body handles the event.
ToolCallCompletes ==
    /\ sync.pc = "iterating"
    /\ stream_end = "open"
    /\ ToolCallOpen
    /\ LET started == StartedEventsOf(agno_stream)
           tool == started[Len(started)].tool
           event == ToolCallCompletedEvent([tool EXCEPT !.result = "context"])
       IN  /\ agno_stream' = Append(agno_stream, event)
           /\ sync' = SyncEvent(sync, event)
    /\ UNCHANGED <<stream_end, pre_retrieved_sources, async, storeVars, restVars>>

NextTool ==
    \/ TransformStreamSyncBegin
    \/ ToolCallStarts
    \/ ToolCallCompletes
    \/ TransformStreamSyncExhausted
    \/ TransformStreamSyncRaised

SpecTool == InitSave /\ [][NextTool]_vars

\* C35: the tool-input-start frame of every tool call has the toolCallId of
\* the tool-input-available and tool-output-available frames of that call,
\* also when the events of the call carry no call id.
C35_OneIdPerToolCall ==
    LET starts == FramesOfType(sync.frames, "tool-input-start")
        inputs == FramesOfType(sync.frames, "tool-input-available")
        outputs == FramesOfType(sync.frames, "tool-output-available")
    IN  \A k \in DOMAIN inputs :
            /\ starts[k].id = inputs[k].id
            /\ starts[k].id = outputs[k].id


-----------------------------------------------------------------------------
(* C36: the frames of a response pulled to its end hold exactly one done    *)
(* frame, the last one; when the set-up fails before the adapter runs they  *)
(* are error, done, yielded by the endpoint; a failure while the adapter    *)
(* iterates is answered by the adapter alone, the endpoint adding no error  *)
(* frame and no done frame of its own.                                      *)

\* The error frame of the except clause of generate_stream (line 668).
IsEndpointError(frame) ==
    /\ frame.type = "error"
    /\ Len(frame.text) >= 14
    /\ SubSeq(frame.text, 1, 14) = "Stream error: "

\* The consumer has pulled every frame of the response.
PulledToEnd ==
    /\ chat.pc \in {"finally", "persisting", "title", "closed"}
    /\ ~ chat.stopped

C36_ExactlyOneDone ==
    LET frames == sync.frames
    IN  /\ Count(frames, {"done"}) <= 1
        /\ DoneDelivered => frames[Len(frames)].type = "done"
        /\ PulledToEnd => Count(frames, {"done"}) = 1
        /\ PulledToEnd /\ sync.pc = "fresh" =>
              /\ Types(frames) = <<"error", "done">>
              /\ IsEndpointError(frames[1])
        /\ \A i \in DOMAIN frames : IsEndpointError(frames[i]) => sync.pc = "fresh"
        /\ PulledToEnd /\ stream_end = "raised" =>
              /\ frames[Len(frames) - 1] = Frame("error", "", UpstreamError, "", NoData)
              /\ Count(frames, {"error"}) =
                     1 + Len(SelectSeq(agno_stream, LAMBDA e : e.kind = "RunError"))

C36_Witness ==
    /\ PulledToEnd
    /\ stream_end = "raised"
    /\ Len(agno_stream) = MaxChatEvents
    /\ Count(sync.frames, {"done"}) = 1
    /\ Count(sync.frames, {"error"}) = 1


-----------------------------------------------------------------------------
(* A response and a later request for the messages of its conversation      *)
(* (main.py 679-696 and 822-859)                                             *)

MaxReplayEvents == 2    \* upstream events of the response
MaxHistoryLoads == 1    \* get_session_messages requests per behaviour

\* Upstream events of the response: text, a search whose sources are handed
\* over, and the end of the run with its id and references.
ReplayEvents ==
    { RunContentEvent(<<>>, "", "Hello"),
      CustomEvent(<<SlideRef, LectureRef>>),
      CustomEvent(<<SlideRef>>),
      RunCompletedEvent("run-1", <<MessageReferences("attr", <<LectureRef>>)>>, "final") }

\* run.messages of the run of the response as the agent stores it: the
\* question and the answer; a tool call between two assistant messages; an
\* assistant message without an id after the answer; no assistant message;
\* no message.
RunMessagesPool ==
    { <<Message("q1", "user"), Message("m1", "assistant")>>,
      <<Message("q1", "user"), Message("m1", "assistant"), Message("t1", "tool"),
        Message("m2", "assistant")>>,
      <<Message("q1", "user"), Message("m1", "assistant"), Message("", "assistant")>>,
      <<Message("q1", "user")>>,
      <<>> }

\* Variant: the first assistant message of the run that has an id.
FirstAssistantId(messages) ==
    LET found == {i \in DOMAIN messages :
                     messages[i].role = "assistant" /\ messages[i].id # ""}
    IN  IF found = {} THEN ""
        ELSE messages[CHOOSE i \in found : \A j \in found : i <= j].id

\* Lines 686-696: `for msg in reversed(run.messages)` up to the first
\* assistant message that has an id; "" when there is none.
LastAssistantId(messages) ==
    LET found == {i \in DOMAIN messages :
                     messages[i].role = "assistant" /\ messages[i].id # ""}
    IN  IF found = {} THEN ""
        ELSE messages[CHOOSE i \in found : \A j \in found : i >= j].id

\* session.get_run(run_id): the runs of the conversation with that id.
RunsWithId(runs, run_id) == SelectSeq(runs, LAMBDA run : run.run_id = run_id)

\* Lines 682-688 on the conversation store: how the look-up ends.
ReplayLookupOutcomes ==
    IF ~ \E x \in sessions : x.session_id = chat.session_id
    THEN {"raised", "no_session"}
    ELSE LET found == RunsWithId(history.runs, sync.agno_run_id)
         IN  IF found = <<>> THEN {"raised", "no_run"}
             ELSE IF found[1].messages = <<>> THEN {"raised", "no_run"}
             ELSE IF LastAssistantId(found[1].messages) = "" THEN {"raised", "no_message"}
             ELSE {"raised", LastAssistantId(found[1].messages)}

\* The finally block reading the runs of the conversation.
ChatFinallyReplay ==
    /\ ChatFinallyGiven(ReplayLookupOutcomes)

\* The upstream of the response delivers one of the events above.
ReplayStreamEvent ==
    /\ ChatStreamEventOf(ReplayEvents, MaxReplayEvents)

\* The agent stores the run it has completed in the conversation, with its
\* messages.
AgentStoresRun ==
    /\ chat.pc = "streaming"
    /\ sync.agno_run_id # ""
    /\ RunsWithId(history.runs, sync.agno_run_id) = <<>>
    /\ \E messages \in RunMessagesPool :
          history' = [history EXCEPT !.runs = Append(@, Run(sync.agno_run_id, messages))]
    /\ UNCHANGED <<adapterVars, storeVars, peerVars, sessionVars, chatVars, formatVars,
                   extractVars, responseVars, loaded>>

\* agent.get_chat_history(session_id): the messages of the runs, in order.
RECURSIVE ChatHistory(_)
ChatHistory(runs) ==
    IF runs = <<>> THEN <<>>
    ELSE Head(runs).messages \o ChatHistory(Tail(runs))

\* sources=None of a MessageResponse, and a list of source dicts.
NoSources == [present |-> FALSE, list |-> <<>>]
SourcesOf(list) == [present |-> TRUE, list |-> list]

\* Lines 848-858: the MessageResponse of a message; a message without an id
\* is given a fresh one.
MessageResponse(msg, sources_by_message) ==
    [id |-> IF msg.id # "" THEN msg.id ELSE "generated",
     role |-> msg.role,
     sources |-> IF msg.role = "assistant" /\ msg.id # ""
                 THEN IF msg.id \in DOMAIN sources_by_message
                      THEN SourcesOf(sources_by_message[msg.id])
                      ELSE SourcesOf(<<>>)
                 ELSE NoSources]

\* GET /api/sessions/{session_id}/messages by an authenticated user (lines
\* 822-859): 404 unless the conversation is the user's.
GetSessionMessages ==
    /\ history.n < MaxHistoryLoads
    /\ \E session_id \in {"s1"}, user_id \in Users :
          IF AgentSession(session_id, user_id) \notin sessions
          THEN history' = [history EXCEPT !.status_code = 404, !.n = @ + 1]
          ELSE LET filtered == SelectSeq(ChatHistory(history.runs),
                                         LAMBDA msg : msg.role \in {"user", "assistant"})
                   assistant_msg_ids ==
                       {filtered[i].id : i \in {j \in DOMAIN filtered :
                           filtered[j].role = "assistant" /\ filtered[j].id # ""}}
               IN  \E sources_by_message \in
                          load_sources_for_messages(store, assistant_msg_ids) :
                      history' = [history EXCEPT
                          !.response = [i \in DOMAIN filtered |->
                                           MessageResponse(filtered[i], sources_by_message)],
                          !.status_code = 200,
                          !.n = @ + 1,
                          !.after_save = chat.persist = "saved"]
    /\ UNCHANGED <<adapterVars, storeVars, peerVars, sessionVars, chatVars, formatVars,
                   extractVars, responseVars, loaded>>

NextReplay ==
    \/ ChatSetup
    \/ ChatExceptDone
    \/ ReplayStreamEvent
    \/ ChatStreamExhausted
    \/ ChatStreamRaised
    \/ AgentStoresRun
    \/ ConsumerStops
    \/ ChatStreamOver
    \/ ChatFinallyReplay
    \/ SaveMessageSourcesExecute
    \/ SaveMessageSourcesCommit
    \/ ChatSaveRaises
    \/ ChatPersistOver
    \/ ChatTitle
    \/ GetSessionMessages

SpecReplay == InitSave /\ [][NextReplay]_vars

\* The source ids of a list of sources or of source dicts.
SourceIdsOf(list) == {list[i].source_id : i \in DOMAIN list}

\* The first source of the list with the given source id.
FirstWithId(list, source_id) ==
    list[CHOOSE i \in DOMAIN list :
            /\ list[i].source_id = source_id
            /\ \A j \in DOMAIN list : list[j].source_id = source_id => i <= j]

\* C37: when a response with a session id, a captured run id and collected
\* sources has saved them, they were saved under the id of the last
\* assistant message of its run that has an id, and a later request for the
\* messages of the conversation returns, on the message with that id, one
\* source for each collected source id and no other source, as stored, and
\* on every other message no source.
C37_PersistThenReplay ==
    (/\ history.n > 0
     /\ history.status_code = 200
     /\ history.after_save)
        => LET collected == sync.collected_sources
               run == RunsWithId(history.runs, sync.agno_run_id)[1]
               at == {i \in DOMAIN run.messages : run.messages[i].id = call.message_id}
               response == history.response
           IN  /\ chat.session_id # "" /\ sync.agno_run_id # "" /\ collected # <<>>
               /\ at # {}
               /\ \A i \in at : run.messages[i].role = "assistant"
               /\ \A j \in DOMAIN run.messages :
                     (\A i \in at : j > i) =>
                        ~ (run.messages[j].role = "assistant" /\ run.messages[j].id # "")
               /\ \E i \in DOMAIN response : response[i].id = call.message_id
               /\ \A i \in DOMAIN response :
                     IF response[i].id = call.message_id
                     THEN /\ response[i].sources.present
                          /\ SourceIdsOf(response[i].sources.list) = SourceIdsOf(collected)
                          /\ Len(response[i].sources.list) = Cardinality(SourceIdsOf(collected))
                          /\ \A k \in DOMAIN response[i].sources.list :
                               response[i].sources.list[k] =
                                  SourceDict(InsertParams(call.message_id, chat.session_id,
                                     FirstWithId(collected,
                                                 response[i].sources.list[k].source_id)))
                     ELSE response[i].sources.list = <<>>

C37_Witness ==
    /\ history.n > 0
    /\ history.after_save
    /\ call.message_id = "m2"
    /\ Len(sync.collected_sources) = 3
    /\ \E i \in DOMAIN history.response :
          /\ history.response[i].id = "m2"
          /\ Len(history.response[i].sources.list) = 2
    /\ \E i \in DOMAIN history.response :
          /\ history.response[i].id = "m1"
          /\ history.response[i].sources = SourcesOf(<<>>)


-----------------------------------------------------------------------------
(* A save whose statement fails (message_sources_service.py 30-64, called   *)
(* as in main.py 689-698)                                                    *)

\* Variant: the database session is closed with a commit of what the failed
\* call had inserted.
SaveStatementRaisesCommitted ==
    /\ call.status = "executing"
    /\ call.next <= Len(call.sources)
    /\ call' = [call EXCEPT !.status = "raised"]
    /\ store' = store \cup db
    /\ db' = {}
    /\ UNCHANGED <<saved, adapterVars, restVars>>

\* The database fails the next INSERT of the call: db.execute raises, the
\* exception leaves save_message_sources before its commit, and the `with
\* SessionLocal()` block closes the session, which rolls back.
SaveStatementRaises ==
    /\ call.status = "executing"
    /\ call.next <= Len(call.sources)
    /\ call' = [call EXCEPT !.status = "raised"]
    /\ db' = {}
    /\ UNCHANGED <<store, saved, adapterVars, restVars>>

NextAtomic ==
    \/ SaveMessageSourcesCall
    \/ SaveMessageSourcesExecute
    \/ SaveStatementRaises
    \/ SaveMessageSourcesCommit

SpecAtomic == InitSave /\ [][NextAtomic]_vars

\* The rows the call binds, one for each of its sources.
RowsOfCall(c) ==
    {InsertParams(c.message_id, c.session_id, c.sources[i]) : i \in DOMAIN c.sources}

\* C38: the store changes only at the commit that ends a save call: while
\* the call inserts, after one of its inserts has failed, and after a call
\* with no sources, the store is as it was when the call began; after the
\* commit every source of the call has its row, and the rows added are rows
\* of the call.
C38_AllOrNothing ==
    /\ call.status \in {"executing", "raised", "returned"} => store = call.before
    /\ call.status = "raised" => db = {}
    /\ call.n > 0 /\ call.sources = <<>> => call.status = "returned"
    /\ call.status = "committed" =>
          /\ \A row \in RowsOfCall(call) : \E r \in store : SameKey(r, row)
          /\ call.before \subseteq store
          /\ store \ call.before \subseteq RowsOfCall(call)

C38_Witness ==
    /\ call.status = "raised"
    /\ call.next = 2
    /\ Len(call.sources) = 2
    /\ call.before # {}
    /\ \A row \in RowsOfCall(call) : ~ \E r \in store : SameKey(r, row)

=============================================================================
